---- MODULE Spec2Model ----
(***************************************************************************)
(* A model of the palmistry poker core: the 4x13 bitboard, the rank-mask   *)
(* tables, the packed score, the evaluator and the equity engine.          *)
(*                                                                         *)
(* Unsigned machine integers are modelled by their values; the bitwise     *)
(* operators are computed bit by bit, and u16 arithmetic wraps at 2^16.    *)
(* A 64-bit word (the generator state, the sampler pool) is a function     *)
(* from bit positions 0..63 to {0, 1}, bit 0 the least significant.        *)
(***************************************************************************)
EXTENDS Integers, Sequences, FiniteSets, TLC

VARIABLES
    hand,       \* evaluator: the BitBoard4x13 being built, <<suits[0..3]>>
    score,      \* evaluator: the packed score of hand, NoScore before evaluation
    handB,      \* evaluator: the second bitboard of a comparison
    scoreB,     \* evaluator: the packed score of handB
    pcE,        \* evaluator: "build" | "pair" | "pack" | "ops" | "lut" | "done" | "idle"
    packA,      \* score: the arguments of a pack_score call, NoArgs when none
    packB,      \* score: the arguments of a second pack_score call
    lutArg,     \* lut13: the argument of a table lookup, NoLut when none
    lutRet,     \* lut13: what the lookup returned
    lastOp,     \* bitboard: the last operation on hand, what it returned, the
                \* cards removed and not added since, and the cards added and
                \* not removed or cleared since
    call,       \* equity: the entry point called and its arguments
    pc,         \* equity: "start" | "sample" | "enum" | "enumvr" | "done" | "idle"
    smp,        \* equity: the CardSampler52 of the call
    used,       \* equity: the occupancy set of the current trial
    drawn,      \* equity: the cards sample_distinct_cards has written this trial;
                \* exact against a random hand: the villain of the current pass
    trial,      \* equity: the number of trials completed
    scores,     \* equity: the scores of the players in the last trial
    results,    \* equity: the EquityCounts, one per player (one for heads-up)
    rem,        \* exact: the remaining cards being enumerated
    loopIdx,    \* exact: the loop indices of the next completion, Exhausted after the last
    seen,       \* exact: the completions handed to the callback so far
    run,        \* the number of the call: 1, or 2 for its repetition
    prev,       \* the first call's accepted draws and returned counts
    log,        \* this call's accepted draws: card and sampler state after it
    ret         \* equity: what the entry point returned, NoRet before it returns

unitVars == <<packA, packB, lutArg, lutRet, lastOp>>
evalVars == <<hand, score, handB, scoreB, pcE, packA, packB, lutArg, lutRet, lastOp>>
eqVars == <<call, pc, smp, used, drawn, trial, scores, results, rem, loopIdx, seen,
            run, prev, log, ret>>
vars == <<hand, score, handB, scoreB, pcE, packA, packB, lutArg, lutRet, lastOp, call, pc, smp, used, drawn, trial, scores,
          results, rem, loopIdx, seen, run, prev, log, ret>>

----------------------------------------------------------------------------
(* Machine arithmetic *)

RECURSIVE BitAnd(_, _)
BitAnd(a, b) ==
    IF a = 0 \/ b = 0 THEN 0
    ELSE (a % 2) * (b % 2) + 2 * BitAnd(a \div 2, b \div 2)

RECURSIVE BitOr(_, _)
BitOr(a, b) ==
    IF a = 0 THEN b
    ELSE IF b = 0 THEN a
    ELSE (IF a % 2 = 1 \/ b % 2 = 1 THEN 1 ELSE 0) + 2 * BitOr(a \div 2, b \div 2)

\* !x on a u16
Not16(x) == 65535 - x

\* 1u16 << i; a shift amount of 16 or more wraps to its low 4 bits
Shl1(i) == 2 ^ (i % 16)

\* a - b on u16, wrapping
Sub16(a, b) == (a - b + 65536) % 65536

\* x as u8, for an i8 x
AsU8(x) == (x + 256) % 256

----------------------------------------------------------------------------
(* bitboard.rs *)

MASK13 == 8191

BitBoardNew == <<0, 0, 0, 0>>

\* The board after clear()
clear(b) == <<0, 0, 0, 0>>

\* add_id that takes the suit from the low two bits of the id and the rank
\* from the rest.
add_id_SuitInLowBits(b, id) ==
    LET s   == id % 4
        r   == id \div 4
        bit == Shl1(r)
        old == b[s + 1]
    IN  [b EXCEPT ![s + 1] = BitAnd(BitOr(old, bit), MASK13)]

\* The board after add_id(id); suits[s] is b[s + 1].
add_id(b, id) ==
    LET s   == id \div 13
        r   == id % 13
        bit == Shl1(r)
        old == b[s + 1]
    IN  [b EXCEPT ![s + 1] = BitAnd(BitOr(old, bit), MASK13)]

\* The value add_id(id) returns: whether the card was already present.
add_id_already(b, id) ==
    LET s   == id \div 13
        r   == id % 13
        bit == Shl1(r)
        old == b[s + 1]
    IN  BitAnd(old, bit) # 0

\* Card::new(suit, rank), suit and rank as their idx() values
Card_new(suit, rank) == [suit |-> suit, rank |-> rank]

\* Card::id
Card_id(card) == card.suit * 13 + card.rank

\* The board after add_card(card)
add_card(b, card) ==
    LET s   == card.suit
        bit == Shl1(card.rank)
        old == b[s + 1]
    IN  [b EXCEPT ![s + 1] = BitAnd(BitOr(old, bit), MASK13)]

\* The value add_card(card) returns
add_card_already(b, card) ==
    LET s   == card.suit
        bit == Shl1(card.rank)
        old == b[s + 1]
    IN  BitAnd(old, bit) # 0

\* remove_card that leaves the board as it is.
remove_card_Kept(b, card) == b

\* The board after remove_card(card)
remove_card(b, card) ==
    LET s   == card.suit
        bit == Shl1(card.rank)
    IN  [b EXCEPT ![s + 1] = BitAnd(BitAnd(b[s + 1], Not16(bit)), MASK13)]

----------------------------------------------------------------------------
(* lut13.rs *)

N13 == 8192

WHEEL_MASK == 4111

RECURSIVE popcount_u16(_)
popcount_u16(x) ==
    IF x = 0 THEN 0 ELSE (x % 2) + popcount_u16(x \div 2)

RECURSIVE hibit_scan(_, _)
hibit_scan(x, i) ==
    IF i < 0 THEN -1
    ELSE IF BitAnd(x, Shl1(i)) # 0 THEN i
    ELSE hibit_scan(x, i - 1)

\* hibit_index_u16 that scans upwards and so finds the lowest set bit.
hibit_index_u16_Lowest(x) ==
    IF x = 0 THEN -1
    ELSE CHOOSE i \in 0..12 :
            BitAnd(x, Shl1(i)) # 0 /\ \A j \in 0..(i - 1) : BitAnd(x, Shl1(j)) = 0

hibit_index_u16(x) == IF x = 0 THEN -1 ELSE hibit_scan(x, 12)

\* straight_scan that returns the first window found from the low end.
straight_scan_LowestFirst(m, s) ==
    LET found == {t \in 0..s : BitAnd(m, 31 * (2 ^ t)) = 31 * (2 ^ t)}
    IN  IF found = {} THEN -1
        ELSE (CHOOSE t \in found : \A u \in found : t <= u) + 4

RECURSIVE straight_scan(_, _)
straight_scan(mask, s) ==
    IF s < 0 THEN -1
    ELSE LET window == 31 * (2 ^ s)
         IN  IF BitAnd(mask, window) = window THEN s + 4
             ELSE straight_scan(mask, s - 1)

\* straight_end_u16 that ends the wheel at the Ace.
straight_end_u16_WheelAceHigh(mask) ==
    LET w == straight_scan(mask, 8)
    IN  IF w >= 0 THEN w
        ELSE IF BitAnd(mask, WHEEL_MASK) = WHEEL_MASK THEN 12
        ELSE -1

straight_end_u16(mask) ==
    LET w == straight_scan(mask, 8)
    IN  IF w >= 0 THEN w
        ELSE IF BitAnd(mask, WHEEL_MASK) = WHEEL_MASK THEN 3
        ELSE -1

POPCNT13 == [m \in 0..(N13 - 1) |-> popcount_u16(m)]
HIBIT13 == [m \in 0..(N13 - 1) |-> hibit_index_u16(m)]
STRAIGHT_END13 == [m \in 0..(N13 - 1) |-> straight_end_u16(m)]

popcnt13(mask) == POPCNT13[BitAnd(mask, MASK13)]
hibit13(mask) == HIBIT13[BitAnd(mask, MASK13)]
straight_end13(mask) == STRAIGHT_END13[BitAnd(mask, MASK13)]

----------------------------------------------------------------------------
(* score.rs *)

HighCard == 0
OnePair == 1
TwoPair == 2
Trips == 3
Straight == 4
Flush == 5
FullHouse == 6
Quads == 7
StraightFlush == 8

\* pack_score that shifts slot r0 by 20 bits, onto the category.
pack_score_SlotOnCategory(cat, r0, r1, r2, r3, r4) ==
    BitOr(BitOr(BitOr(BitOr(BitOr(cat * 1048576, r0 * 1048576), r1 * 4096),
                      r2 * 256), r3 * 16), BitAnd(r4, 15))

pack_score(cat, r0, r1, r2, r3, r4) ==
    BitOr(BitOr(BitOr(BitOr(BitOr(cat * 1048576, r0 * 65536), r1 * 4096),
                      r2 * 256), r3 * 16), BitAnd(r4, 15))

\* The fields unpack_score reads.
ScoreCat(v) == (v \div 1048576) % 16
ScoreSlot(v, i) == (v \div (2 ^ (16 - 4 * i))) % 16

----------------------------------------------------------------------------
(* evaluator.rs *)

\* has_two_or_more_bits that is satisfied by a single bit.
has_two_or_more_bits_AnyBit(x) == x # 0

has_two_or_more_bits(x) == x # 0 /\ BitAnd(x, Sub16(x, 1)) # 0

\* The loop of top5_rank_indices_from_mask: i slots already written to out.
RECURSIVE top5_loop(_, _, _)
top5_loop(m, i, out) ==
    IF i >= 5 THEN out
    ELSE LET idx == hibit13(m)
         IN  top5_loop(BitAnd(m, Not16(Shl1(idx))), i + 1,
                       Append(out, AsU8(idx)))

top5_rank_indices_from_mask(m) == top5_loop(BitAnd(m, MASK13), 0, <<>>)

NoScore == -1

evaluate_u32(b) ==
    LET h0 == BitAnd(b[1], MASK13)
        h1 == BitAnd(b[2], MASK13)
        h2 == BitAnd(b[3], MASK13)
        h3 == BitAnd(b[4], MASK13)
        ranks == BitAnd(BitOr(BitOr(BitOr(h0, h1), h2), h3), MASK13)
        ge4 == BitAnd(BitAnd(BitAnd(BitAnd(h0, h1), h2), h3), MASK13)
        ge2 == BitAnd(BitOr(BitOr(BitOr(BitOr(BitOr(BitAnd(h0, h1), BitAnd(h0, h2)),
                   BitAnd(h0, h3)), BitAnd(h1, h2)), BitAnd(h1, h3)), BitAnd(h2, h3)),
                   MASK13)
        ge3 == BitAnd(BitOr(BitOr(BitOr(BitAnd(BitAnd(h0, h1), h2),
                   BitAnd(BitAnd(h0, h1), h3)), BitAnd(BitAnd(h0, h2), h3)),
                   BitAnd(BitAnd(h1, h2), h3)), MASK13)
        \* Straight flush
        sf(best, h) ==
            IF popcnt13(h) >= 5
            THEN LET se == straight_end13(h) IN IF se > best THEN se ELSE best
            ELSE best
        best_sf == sf(sf(sf(sf(-1, h0), h1), h2), h3)
        \* Quads
        qr == AsU8(hibit13(ge4))
        qkmask == BitAnd(ranks, Not16(Shl1(qr)))
        kr == AsU8(hibit13(qkmask))
        \* Full house
        exactly3 == BitAnd(ge3, Not16(ge4))
        tr1 == AsU8(hibit13(exactly3))
        pairs_only == BitAnd(ge2, Not16(ge3))
        fpmask == BitAnd(pairs_only, Not16(Shl1(tr1)))
        fpr == hibit13(fpmask)
        tr2mask == BitAnd(exactly3, Not16(Shl1(tr1)))
        tr2 == hibit13(tr2mask)
        full_house ==
            IF exactly3 # 0
            THEN IF fpr >= 0 THEN pack_score(FullHouse, tr1, AsU8(fpr), 0, 0, 0)
                 ELSE IF tr2 >= 0 THEN pack_score(FullHouse, tr1, AsU8(tr2), 0, 0, 0)
                 ELSE NoScore
            ELSE NoScore
        \* Flush
        flush_mask ==
            IF popcnt13(h0) >= 5 THEN h0
            ELSE IF popcnt13(h1) >= 5 THEN h1
            ELSE IF popcnt13(h2) >= 5 THEN h2
            ELSE IF popcnt13(h3) >= 5 THEN h3
            ELSE 0
        ft == top5_rank_indices_from_mask(flush_mask)
        \* Straight
        se == straight_end13(ranks)
        \* Trips
        trips == BitAnd(ge3, Not16(ge4))
        tr == AsU8(hibit13(trips))
        tkmask0 == BitAnd(ranks, Not16(Shl1(tr)))
        tk1 == AsU8(hibit13(tkmask0))
        tkmask1 == BitAnd(tkmask0, Sub16(tkmask0, 1))
        tk2 == AsU8(hibit13(tkmask1))
        \* Pairs
        pairs == BitAnd(ge2, Not16(ge3))
        p1 == AsU8(hibit13(pairs))
        ppmask == BitAnd(pairs, Not16(Shl1(p1)))
        p2 == AsU8(hibit13(ppmask))
        pkmask == BitAnd(ranks, Not16(BitOr(Shl1(p1), Shl1(p2))))
        pk == AsU8(hibit13(pkmask))
        pr == AsU8(hibit13(pairs))
        okmask0 == BitAnd(ranks, Not16(Shl1(pr)))
        ok1 == AsU8(hibit13(okmask0))
        okmask1 == BitAnd(okmask0, Sub16(okmask0, 1))
        ok2 == AsU8(hibit13(okmask1))
        okmask2 == BitAnd(okmask1, Sub16(okmask1, 1))
        ok3 == AsU8(hibit13(okmask2))
        \* High card
        ht == top5_rank_indices_from_mask(ranks)
    IN  IF best_sf >= 0 THEN pack_score(StraightFlush, AsU8(best_sf), 0, 0, 0, 0)
        ELSE IF ge4 # 0 THEN pack_score(Quads, qr, kr, 0, 0, 0)
        ELSE IF full_house # NoScore THEN full_house
        ELSE IF flush_mask # 0
            THEN pack_score(Flush, ft[1], ft[2], ft[3], ft[4], ft[5])
        ELSE IF se >= 0 THEN pack_score(Straight, AsU8(se), 0, 0, 0, 0)
        ELSE IF trips # 0 THEN pack_score(Trips, tr, tk1, tk2, 0, 0)
        ELSE IF has_two_or_more_bits(pairs) THEN pack_score(TwoPair, p1, p2, pk, 0, 0)
        ELSE IF pairs # 0 THEN pack_score(OnePair, pr, ok1, ok2, ok3, 0)
        ELSE pack_score(HighCard, ht[1], ht[2], ht[3], ht[4], ht[5])

\* 1u16 << (idx as u16) overflows, and panics in a build with overflow checks,
\* when the amount is 16 or more; an idx of -1 is 255 as u8 and 65535 as u16.
ShiftPanics(idx) == idx < 0 \/ idx >= 16

\* kmask - 1 overflows when kmask is 0.
SubPanics(kmask) == kmask = 0

\* Whether a shift of the loop of top5_rank_indices_from_mask overflows
RECURSIVE top5_panics(_, _)
top5_panics(m, i) ==
    IF i >= 5 THEN FALSE
    ELSE LET idx == hibit13(m)
         IN  ShiftPanics(idx) \/ top5_panics(BitAnd(m, Not16(Shl1(idx))), i + 1)

\* Whether evaluate_u32 meets an overflowing shift or subtraction on the path
\* it takes through its branches
evaluate_u32_panics(b) ==
    LET h0 == BitAnd(b[1], MASK13)
        h1 == BitAnd(b[2], MASK13)
        h2 == BitAnd(b[3], MASK13)
        h3 == BitAnd(b[4], MASK13)
        ranks == BitAnd(BitOr(BitOr(BitOr(h0, h1), h2), h3), MASK13)
        ge4 == BitAnd(BitAnd(BitAnd(BitAnd(h0, h1), h2), h3), MASK13)
        ge2 == BitAnd(BitOr(BitOr(BitOr(BitOr(BitOr(BitAnd(h0, h1), BitAnd(h0, h2)),
                   BitAnd(h0, h3)), BitAnd(h1, h2)), BitAnd(h1, h3)), BitAnd(h2, h3)),
                   MASK13)
        ge3 == BitAnd(BitOr(BitOr(BitOr(BitAnd(BitAnd(h0, h1), h2),
                   BitAnd(BitAnd(h0, h1), h3)), BitAnd(BitAnd(h0, h2), h3)),
                   BitAnd(BitAnd(h1, h2), h3)), MASK13)
        sf(best, h) ==
            IF popcnt13(h) >= 5
            THEN LET se == straight_end13(h) IN IF se > best THEN se ELSE best
            ELSE best
        best_sf == sf(sf(sf(sf(-1, h0), h1), h2), h3)
        exactly3 == BitAnd(ge3, Not16(ge4))
        tr1 == hibit13(exactly3)
        pairs_only == BitAnd(ge2, Not16(ge3))
        fhReturns ==
            \/ hibit13(BitAnd(pairs_only, Not16(Shl1(AsU8(tr1))))) >= 0
            \/ hibit13(BitAnd(exactly3, Not16(Shl1(AsU8(tr1))))) >= 0
        flush_mask ==
            IF popcnt13(h0) >= 5 THEN h0
            ELSE IF popcnt13(h1) >= 5 THEN h1
            ELSE IF popcnt13(h2) >= 5 THEN h2
            ELSE IF popcnt13(h3) >= 5 THEN h3
            ELSE 0
        tkmask0 == BitAnd(ranks, Not16(Shl1(AsU8(hibit13(exactly3)))))
        pairs == BitAnd(ge2, Not16(ge3))
        p1 == hibit13(pairs)
        p2 == hibit13(BitAnd(pairs, Not16(Shl1(AsU8(p1)))))
        okmask0 == BitAnd(ranks, Not16(Shl1(AsU8(p1))))
        okmask1 == BitAnd(okmask0, Sub16(okmask0, 1))
    IN  IF best_sf >= 0 THEN FALSE
        ELSE IF ge4 # 0 THEN ShiftPanics(hibit13(ge4))
        ELSE IF exactly3 # 0 /\ (ShiftPanics(tr1) \/ fhReturns) THEN ShiftPanics(tr1)
        ELSE IF flush_mask # 0 THEN top5_panics(BitAnd(flush_mask, MASK13), 0)
        ELSE IF straight_end13(ranks) >= 0 THEN FALSE
        ELSE IF exactly3 # 0 THEN ShiftPanics(tr1) \/ SubPanics(tkmask0)
        ELSE IF has_two_or_more_bits(pairs) THEN ShiftPanics(p1) \/ ShiftPanics(p2)
        ELSE IF pairs # 0
            THEN ShiftPanics(p1) \/ SubPanics(okmask0) \/ SubPanics(okmask1)
        ELSE top5_panics(BitAnd(ranks, MASK13), 0)

\* evaluate_u32_from_ids, for a sequence of ids
RECURSIVE board_from_ids(_, _)
board_from_ids(b, ids) ==
    IF ids = <<>> THEN b ELSE board_from_ids(add_id(b, Head(ids)), Tail(ids))

evaluate_u32_from_ids(ids) == evaluate_u32(board_from_ids(BitBoardNew, ids))

----------------------------------------------------------------------------
(* 64-bit words *)

WordBits == 0..63

ZeroWord == [i \in WordBits |-> 0]

\* The word of a number below 2^31
ToWord(n) == [i \in WordBits |-> IF i < 31 THEN (n \div (2 ^ i)) % 2 ELSE 0]

XorW(a, b) == [i \in WordBits |-> (a[i] + b[i]) % 2]
ShlW(a, k) == [i \in WordBits |-> IF i >= k THEN a[i - k] ELSE 0]
ShrW(a, k) == [i \in WordBits |-> IF i + k <= 63 THEN a[i + k] ELSE 0]

\* (w & 63) as u8
Low6(w) == w[0] + 2 * w[1] + 4 * w[2] + 8 * w[3] + 16 * w[4] + 32 * w[5]

----------------------------------------------------------------------------
(* equity.rs: errors, validation *)

NumCards == 52

Ok(v) == [ok |-> TRUE, val |-> v]
Err(kind, arg) == [ok |-> FALSE, kind |-> kind, arg |-> arg]

TooManyBoardCards(n) == Err("TooManyBoardCards", n)
DuplicateCard(c) == Err("DuplicateCard", c)
CardOutOfRange(c) == Err("CardOutOfRange", c)
TooFewPlayers == Err("TooFewPlayers", 0)
TooManyPlayers == Err("TooManyPlayers", 0)

\* A u64 occupancy mask is the set of its set bit positions.
card_bit(id) == IF id >= NumCards THEN CardOutOfRange(id) ELSE Ok({id})

\* add_used(&mut used, id): Ok carries the new mask
add_used(u, id) ==
    LET bit == card_bit(id)
    IN  IF ~bit.ok THEN bit
        ELSE IF (u \cap bit.val) # {} THEN DuplicateCard(id)
        ELSE Ok(u \cup bit.val)

\* add_used(..)? over a sequence of ids, stopping at the first error
RECURSIVE add_used_all(_, _)
add_used_all(u, ids) ==
    IF ids = <<>> THEN Ok(u)
    ELSE LET r == add_used(u, Head(ids))
         IN  IF ~r.ok THEN r ELSE add_used_all(r.val, Tail(ids))

\* The ids of a sequence of hands, in order
RECURSIVE FlatHands(_)
FlatHands(hs) ==
    IF hs = <<>> THEN <<>> ELSE <<Head(hs)[1], Head(hs)[2]>> \o FlatHands(Tail(hs))

NoVillain == <<>>

\* validate_inputs that goes through the board before the villain's cards.
validate_inputs_BoardFirst(hero, villain, board) ==
    IF Len(board) > 5 THEN TooManyBoardCards(Len(board))
    ELSE add_used_all({}, <<hero[1], hero[2]>> \o board \o villain)

\* validate_inputs(hero, villain, board); villain is NoVillain for None
validate_inputs(hero, villain, board) ==
    IF Len(board) > 5 THEN TooManyBoardCards(Len(board))
    ELSE add_used_all({}, <<hero[1], hero[2]>> \o villain \o board)

\* validate_multiway that looks at the board length before the player count.
validate_multiway_BoardLenFirst(hands, board) ==
    LET n == Len(hands)
    IN  IF Len(board) > 5 THEN TooManyBoardCards(Len(board))
        ELSE IF n < 2 THEN TooFewPlayers
        ELSE IF n > 9 THEN TooManyPlayers
        ELSE add_used_all({}, FlatHands(hands) \o board)

\* The checks at the head of the two multiway entry points over known hands
validate_multiway(hands, board) ==
    LET n == Len(hands)
    IN  IF n < 2 THEN TooFewPlayers
        ELSE IF n > 9 THEN TooManyPlayers
        ELSE IF Len(board) > 5 THEN TooManyBoardCards(Len(board))
        ELSE add_used_all({}, FlatHands(hands) \o board)

\* The checks at the head of equity_mc_vs_random_multiway_checked
validate_vs_random_multiway(hero, num_villains, board) ==
    IF num_villains < 1 THEN TooFewPlayers
    ELSE IF num_villains > 8 THEN TooManyPlayers
    ELSE IF Len(board) > 5 THEN TooManyBoardCards(Len(board))
    ELSE add_used_all({}, <<hero[1], hero[2]>> \o board)

\* The validation the entry point of a call performs
Validate(c) ==
    CASE c.entry \in {"compare_showdown", "mc_vs_hand", "exact_vs_hand"} ->
            validate_inputs(c.hands[1], c.hands[2], c.board)
      [] c.entry \in {"mc_vs_random", "exact_vs_random"} ->
            validate_inputs(c.hands[1], NoVillain, c.board)
      [] c.entry \in {"mc_multiway", "exact_multiway"} ->
            validate_multiway(c.hands, c.board)
      [] c.entry = "mc_vs_random_multiway" ->
            validate_vs_random_multiway(c.hands[1], c.nvill, c.board)

\* fill_remaining_cards: the unused ids in ascending order
RECURSIVE fill_remaining_from(_, _)
fill_remaining_from(u, id) ==
    IF id >= NumCards THEN <<>>
    ELSE IF id \notin u THEN <<id>> \o fill_remaining_from(u, id + 1)
    ELSE fill_remaining_from(u, id + 1)

fill_remaining_cards(u) == fill_remaining_from(u, 0)

----------------------------------------------------------------------------
(* equity.rs: showdown, counters *)

\* The comparison with the two outcomes of a win exchanged.
Outcome_Exchanged(hs, vs) ==
    IF hs > vs THEN "VillainWin"
    ELSE IF hs < vs THEN "HeroWin"
    ELSE "Tie"

\* Outcome that gives an even showdown to hero.
Outcome_TieToHero(hs, vs) ==
    IF hs >= vs THEN "HeroWin" ELSE "VillainWin"

\* The comparison at the end of eval_two_players_unchecked
Outcome(hs, vs) ==
    IF hs > vs THEN "HeroWin"
    ELSE IF hs < vs THEN "VillainWin"
    ELSE "Tie"

EquityCountsDefault == [win |-> 0, tie |-> 0, lose |-> 0]

total(c) == c.win + c.tie + c.lose

\* bump_counts without its Tie arm: a tied showdown is not counted.
bump_counts_NoTie(counts, out) ==
    CASE out = "HeroWin" -> [counts EXCEPT !.win = @ + 1]
      [] out = "Tie" -> counts
      [] out = "VillainWin" -> [counts EXCEPT !.lose = @ + 1]

bump_counts(counts, out) ==
    CASE out = "HeroWin" -> [counts EXCEPT !.win = @ + 1]
      [] out = "Tie" -> [counts EXCEPT !.tie = @ + 1]
      [] out = "VillainWin" -> [counts EXCEPT !.lose = @ + 1]

\* find_winners that keeps only the first player holding the greatest score.
find_winners_First(sc) ==
    IF sc = <<>> THEN {}
    ELSE LET best == CHOOSE x \in {sc[i] : i \in 1..Len(sc)} :
                         \A i \in 1..Len(sc) : sc[i] <= x
             first == CHOOSE i \in 1..Len(sc) :
                         sc[i] = best /\ \A j \in 1..(i - 1) : sc[j] # best
         IN  {first}

\* The indices (from 1) of the players whose score is the greatest
find_winners(sc) ==
    IF sc = <<>> THEN {}
    ELSE LET best == CHOOSE x \in {sc[i] : i \in 1..Len(sc)} :
                         \A i \in 1..Len(sc) : sc[i] <= x
         IN  {i \in 1..Len(sc) : sc[i] = best}

\* The scores of the players of a trial on a full board: the board is loaded
\* once, each player's two hole cards are added to a copy, and it is evaluated.
multiway_scores(hands, board5) ==
    LET bb_board == board_from_ids(BitBoardNew, board5)
    IN  [i \in 1..Len(hands) |->
            evaluate_u32(add_id(add_id(bb_board, hands[i][1]), hands[i][2]))]

\* eval_two_players_unchecked builds and scores the two hands the same way
eval_two_players_unchecked(hero, villain, board5) ==
    LET sc == multiway_scores(<<hero, villain>>, board5)
    IN  Outcome(sc[1], sc[2])

\* bump_multiway whose sole-winner branch leaves the other players uncounted.
bump_multiway_WinnerOnly(res, winners) ==
    IF Cardinality(winners) = 1
    THEN [i \in 1..Len(res) |->
            IF i \in winners THEN [res[i] EXCEPT !.win = @ + 1]
            ELSE res[i]]
    ELSE [i \in 1..Len(res) |->
            IF i \in winners THEN [res[i] EXCEPT !.tie = @ + 1]
            ELSE [res[i] EXCEPT !.lose = @ + 1]]

\* bump_multiway that counts a split pot as a win of each winner.
bump_multiway_SplitAsWin(res, winners) ==
    [i \in 1..Len(res) |->
        IF i \in winners THEN [res[i] EXCEPT !.win = @ + 1]
        ELSE [res[i] EXCEPT !.lose = @ + 1]]

\* The counter updates of a multiway trial over known hands
bump_multiway(res, winners) ==
    IF Cardinality(winners) = 1
    THEN [i \in 1..Len(res) |->
            IF i \in winners THEN [res[i] EXCEPT !.win = @ + 1]
            ELSE [res[i] EXCEPT !.lose = @ + 1]]
    ELSE [i \in 1..Len(res) |->
            IF i \in winners THEN [res[i] EXCEPT !.tie = @ + 1]
            ELSE [res[i] EXCEPT !.lose = @ + 1]]

\* The counter update of a trial of hero against random villains
bump_hero(counts, winners) ==
    IF Cardinality(winners) = 1
    THEN IF 1 \in winners THEN [counts EXCEPT !.win = @ + 1]
         ELSE [counts EXCEPT !.lose = @ + 1]
    ELSE IF 1 \in winners THEN [counts EXCEPT !.tie = @ + 1]
         ELSE [counts EXCEPT !.lose = @ + 1]

----------------------------------------------------------------------------
(* equity.rs: the generator and the card sampler *)

\* XorShift64::next_u64: the new state, which is also the value returned
next_u64(state) ==
    LET x1 == XorW(state, ShlW(state, 13))
        x2 == XorW(x1, ShrW(x1, 7))
    IN  XorW(x2, ShlW(x2, 17))

CardSampler52_new(seed) ==
    LET st == next_u64(seed)
    IN  [rng |-> st, pool |-> st, bits_left |-> 64]

\* The sampler once next_u6 has refilled the pool if fewer than 6 bits are left
refilled(sm) ==
    IF sm.bits_left < 6
    THEN [rng |-> next_u64(sm.rng), pool |-> next_u64(sm.rng), bits_left |-> 64]
    ELSE sm

\* next_u6 that folds the chunk into 0..51 instead of leaving 52..63 to be
\* rejected.
next_u6_value_Folded(sm) == Low6(refilled(sm).pool) % 52

\* The value next_u6 returns
next_u6_value(sm) == Low6(refilled(sm).pool)

\* The sampler after next_u6
next_u6_state(sm) ==
    LET r == refilled(sm)
    IN  [r EXCEPT !.pool = ShrW(r.pool, 6), !.bits_left = r.bits_left - 6]

----------------------------------------------------------------------------
(* equity.rs: the entry points as processes *)

McEntries == {"mc_vs_hand", "mc_vs_random", "mc_multiway", "mc_vs_random_multiway"}
ExactEntries == {"exact_vs_hand", "exact_multiway"}

\* 5usize.saturating_sub(board.len())
Missing(c) == IF Len(c.board) >= 5 THEN 0 ELSE 5 - Len(c.board)

\* The number of random opponents whose hole cards each trial samples
RandomVillains(c) ==
    CASE c.entry = "mc_vs_random" -> 1
      [] c.entry = "mc_vs_random_multiway" -> c.nvill
      [] OTHER -> 0

\* The number of cards sample_distinct_cards writes in one trial
Need(c) == 2 * RandomVillains(c) + Missing(c)

\* The number of EquityCounts the entry point returns
NumCounts(c) == IF c.entry \in {"mc_multiway", "exact_multiway"} THEN Len(c.hands) ELSE 1

\* SamplerForCall that seeds the sampler once and keeps it across calls.
SamplerForCall_Kept(seed) ==
    IF run = 1 THEN CardSampler52_new(ToWord(seed)) ELSE smp

\* The sampler an entry point starts from: CardSampler52::new(seed)
SamplerForCall(seed) == CardSampler52_new(ToWord(seed))

NoSampler == [rng |-> ZeroWord, pool |-> ZeroWord, bits_left |-> 0]
NoPrev == [log |-> <<>>, results |-> <<>>]
NoRet == [ok |-> FALSE, kind |-> "pending", arg |-> 0]
NoCall == [entry |-> "none", hands |-> <<>>, nvill |-> 0, board |-> <<>>,
           iters |-> 0, seed |-> 0]
Exhausted == <<-1>>

\* The villains sampled this trial, as hands, from the first 2 * n cards drawn
VillainsOf(d, n) == [i \in 1..n |-> <<d[2 * i - 1], d[2 * i]>>]

\* board5: the known board followed by the sampled fill (the last cards drawn)
Board5Of(c, d) == c.board \o SubSeq(d, 2 * RandomVillains(c) + 1, Len(d))

\* The hands evaluated in a trial; d holds the cards drawn for the trial
TrialPlayers(c, d) ==
    CASE c.entry \in {"mc_vs_random", "exact_vs_random"} -> <<c.hands[1], <<d[1], d[2]>>>>
      [] c.entry = "mc_vs_random_multiway" -> <<c.hands[1]>> \o VillainsOf(d, c.nvill)
      [] OTHER -> c.hands

\* The counter updates of a trial whose scores are sc
TrialBump(c, sc, res) ==
    CASE c.entry \in {"mc_multiway", "exact_multiway"} ->
            bump_multiway(res, find_winners(sc))
      [] c.entry = "mc_vs_random_multiway" ->
            <<bump_hero(res[1], find_winners(sc))>>
      [] OTHER ->
            <<bump_counts(res[1], Outcome(sc[1], sc[2]))>>

\* Entry of a Monte Carlo entry point: validation, counters, sampler
McStart ==
    /\ pc = "start"
    /\ call.entry \in McEntries
    /\ Validate(call).ok
    /\ used' = Validate(call).val
    /\ smp' = SamplerForCall(call.seed)
    /\ results' = [i \in 1..NumCounts(call) |-> EquityCountsDefault]
    /\ drawn' = <<>>
    /\ trial' = 0
    /\ scores' = <<>>
    /\ log' = <<>>
    /\ pc' = IF call.iters = 0 THEN "done" ELSE "sample"
    /\ ret' = IF call.iters = 0 THEN Ok(results') ELSE NoRet
    /\ UNCHANGED <<call, rem, loopIdx, seen, run, prev>>
    /\ UNCHANGED evalVars

\* One pass of the rejection loops of next_card_id and sample_distinct_cards:
\* one 6-bit chunk is taken, and accepted if below 52 and not yet used.
McDraw ==
    /\ pc = "sample"
    /\ Len(drawn) < Need(call)
    /\ LET v == next_u6_value(smp)
       IN  /\ smp' = next_u6_state(smp)
           /\ IF v < NumCards /\ v \notin used
              THEN /\ used' = used \cup {v}
                   /\ drawn' = Append(drawn, v)
                   /\ log' = Append(log, <<v, smp'>>)
              ELSE UNCHANGED <<used, drawn, log>>
    /\ UNCHANGED <<call, pc, trial, scores, results, rem, loopIdx, seen, run, prev, ret>>
    /\ UNCHANGED evalVars

\* McTrial that carries the occupancy set of a trial over to the next.
McTrial_UsedKept ==
    /\ pc = "sample"
    /\ Len(drawn) = Need(call)
    /\ scores' = multiway_scores(TrialPlayers(call, drawn), Board5Of(call, drawn))
    /\ results' = TrialBump(call, scores', results)
    /\ trial' = trial + 1
    /\ drawn' = <<>>
    /\ IF trial + 1 = call.iters
       THEN /\ pc' = "done"
            /\ ret' = Ok(results')
       ELSE /\ pc' = "sample"
            /\ UNCHANGED ret
    /\ UNCHANGED <<call, smp, used, rem, loopIdx, seen, run, prev, log>>
    /\ UNCHANGED evalVars

\* The rest of one iteration once the cards are sampled: evaluate, classify, count
McTrial ==
    /\ pc = "sample"
    /\ Len(drawn) = Need(call)
    /\ scores' = multiway_scores(TrialPlayers(call, drawn), Board5Of(call, drawn))
    /\ results' = TrialBump(call, scores', results)
    /\ trial' = trial + 1
    /\ drawn' = <<>>
    /\ IF trial + 1 = call.iters
       THEN /\ pc' = "done"
            /\ ret' = Ok(results')
            /\ UNCHANGED used
       ELSE /\ pc' = "sample"
            /\ used' = Validate(call).val
            /\ UNCHANGED ret
    /\ UNCHANGED <<call, smp, rem, loopIdx, seen, run, prev, log>>
    /\ UNCHANGED evalVars

\* The caller repeats the call with the same arguments and the same seed.
McAgain ==
    /\ pc = "done"
    /\ call.entry \in McEntries
    /\ run = 1
    /\ run' = 2
    /\ prev' = [log |-> log, results |-> results]
    /\ pc' = "start"
    /\ UNCHANGED <<call, smp, used, drawn, trial, scores, results, rem, loopIdx, seen,
                   log, ret>>
    /\ UNCHANGED evalVars

----------------------------------------------------------------------------
(* equity.rs: exact enumeration *)

\* When three or more board cards are missing the enumeration runs over the
\* first MaxRem unused cards only; with at most two missing it runs over all.
MaxRem == 8

EnumScope(r, missing) ==
    IF missing >= 3 /\ Len(r) > MaxRem THEN SubSeq(r, 1, MaxRem) ELSE r

\* LoopBound one short: each loop stops one index early.
LoopBound_Short(m, missing, d) ==
    IF m >= missing - d + 1 THEN m - (missing - d + 1) ELSE 0

\* The exclusive upper bound of the loop at depth d (1 the outermost) of the
\* nest for `missing` cards over m remaining cards: m.saturating_sub(missing - d)
LoopBound(m, missing, d) == IF m >= missing - d THEN m - (missing - d) ELSE 0

\* Loop indices idx are valid from depth d on when each is below its bound.
IndicesValid(m, missing, ix) ==
    \A d \in 1..missing : ix[d] < LoopBound(m, missing, d)

\* The indices of the first pass through the innermost body
first_indices(m, missing) ==
    LET ix == [d \in 1..missing |-> d - 1]
    IN  IF IndicesValid(m, missing, ix) THEN ix ELSE Exhausted

\* The indices of the next pass: the deepest loop that can advance does, and
\* every loop inside it restarts one above its parent.
RECURSIVE next_from(_, _, _, _)
next_from(m, missing, ix, d) ==
    IF d < 1 THEN Exhausted
    ELSE LET cand == [e \in 1..missing |->
                        IF e < d THEN ix[e] ELSE ix[d] + 1 + (e - d)]
         IN  IF IndicesValid(m, missing, cand) THEN cand
             ELSE next_from(m, missing, ix, d - 1)

next_indices(m, missing, ix) == next_from(m, missing, ix, missing)

\* board5 of a pass: the known board followed by rem[i], rem[j], ...
CompletionOf(r, ix) == [d \in 1..Len(ix) |-> r[ix[d] + 1]]

\* Entry of an exact entry point: validation, remaining cards, counters
ExStart ==
    /\ pc = "start"
    /\ call.entry \in ExactEntries
    /\ Validate(call).ok
    /\ used' = Validate(call).val
    /\ rem' = EnumScope(fill_remaining_cards(used'), Missing(call))
    /\ loopIdx' = first_indices(Len(rem'), Missing(call))
    /\ results' = [i \in 1..NumCounts(call) |-> EquityCountsDefault]
    /\ trial' = 0
    /\ seen' = {}
    /\ scores' = <<>>
    /\ pc' = IF loopIdx' = Exhausted THEN "done" ELSE "enum"
    /\ ret' = IF loopIdx' = Exhausted THEN Ok(results') ELSE NoRet
    /\ UNCHANGED <<call, smp, drawn, run, prev, log>>
    /\ UNCHANGED evalVars

\* One call of the closure handed to enumerate_board_completions
ExStep ==
    /\ pc = "enum"
    /\ LET fill == CompletionOf(rem, loopIdx)
           board5 == call.board \o fill
       IN  /\ scores' = multiway_scores(TrialPlayers(call, drawn), board5)
           /\ results' = TrialBump(call, scores', results)
           /\ seen' = seen \cup {{fill[i] : i \in 1..Len(fill)}}
    /\ trial' = trial + 1
    /\ loopIdx' = next_indices(Len(rem), Missing(call), loopIdx)
    /\ IF loopIdx' = Exhausted
       THEN pc' = "done" /\ ret' = Ok(results')
       ELSE pc' = "enum" /\ UNCHANGED ret
    /\ UNCHANGED <<call, smp, used, drawn, rem, run, prev, log>>
    /\ UNCHANGED evalVars

----------------------------------------------------------------------------
(* Specification SpecEquity: one call of an equity entry point on valid     *)
(* arguments; a Monte Carlo call is then repeated with the same arguments.  *)

MaxIters == 3
MaxSeed == 3
MaxVillains == 3

AA == <<12, 25>>
KK == <<11, 24>>

\* Known boards of 0 to 5 cards: none, 2c, 2c 3d, 2c 3d 4h, 2c 3d 4h 5s,
\* 2c 3d 4h 5s 9c, and the royal flush in spades.
EquityBoards ==
    {<<>>, <<0>>, <<0, 14>>, <<0, 14, 28>>, <<0, 14, 28, 42>>, <<0, 14, 28, 42, 7>>,
     <<47, 48, 49, 50, 51>>}

\* Known hands: AA against KK either way round, three and four players
EquityHands ==
    {<<AA, KK>>, <<KK, AA>>, <<<<1, 2>>, <<13 + 1, 13 + 2>>, <<26 + 1, 26 + 2>>>>,
     <<AA, KK, <<10, 23>>, <<9, 22>>>>}

EquityCalls ==
    {c \in
        [entry : {"mc_vs_hand", "exact_vs_hand"}, hands : {h \in EquityHands : Len(h) = 2},
         nvill : {0}, board : EquityBoards, iters : 0..MaxIters, seed : 0..MaxSeed]
        \cup
        [entry : {"mc_multiway", "exact_multiway"}, hands : EquityHands,
         nvill : {0}, board : EquityBoards, iters : 0..MaxIters, seed : 0..MaxSeed]
        \cup
        [entry : {"mc_vs_random"}, hands : {<<AA>>, <<KK>>},
         nvill : {0}, board : EquityBoards, iters : 0..MaxIters, seed : 0..MaxSeed]
        \cup
        [entry : {"mc_vs_random_multiway"}, hands : {<<AA>>},
         nvill : 1..MaxVillains, board : EquityBoards, iters : 0..MaxIters,
         seed : 0..MaxSeed] :
        /\ Validate(c).ok
        /\ c.entry \in ExactEntries => (c.iters = 0 /\ c.seed = 0)}

NoArgs == <<>>
NoOp == [op |-> "none", card |-> 0, ret |-> FALSE, removed |-> {}, present |-> {}]

NoLut == "none"

UnitIdle ==
    /\ packA = NoArgs
    /\ packB = NoArgs
    /\ lutArg = NoLut
    /\ lutRet = NoLut
    /\ lastOp = NoOp

EvalIdle ==
    /\ hand = BitBoardNew
    /\ score = NoScore
    /\ handB = BitBoardNew
    /\ scoreB = NoScore
    /\ pcE = "idle"
    /\ UnitIdle

InitEquity ==
    /\ call \in EquityCalls
    /\ pc = "start"
    /\ smp = NoSampler
    /\ used = {}
    /\ drawn = <<>>
    /\ trial = 0
    /\ scores = <<>>
    /\ results = <<>>
    /\ rem = <<>>
    /\ loopIdx = Exhausted
    /\ seen = {}
    /\ run = 1
    /\ prev = NoPrev
    /\ log = <<>>
    /\ ret = NoRet
    /\ EvalIdle

NextEquity == McStart \/ McDraw \/ McTrial \/ McAgain \/ ExStart \/ ExStep

SpecEquity == InitEquity /\ [][NextEquity]_vars

\* A call runs on its thread until it returns: a step that is due is taken.
\* StartDue is McStart or ExStart seen through the program position, and
\* TrialDue is McTrial or ExStep seen through the trial counter: each is
\* enabled exactly when the step is, and no other step of NextEquity leaves
\* "start" or adds a trial.  The caller is not bound to repeat a call (McAgain).
StartDue == pc = "start" /\ pc' \in {"sample", "enum", "done"}

TrialDue ==
    /\ \/ pc = "sample" /\ Len(drawn) = Need(call)
       \/ pc = "enum"
    /\ trial' = trial + 1

FairSpecEquity ==
    /\ SpecEquity
    /\ WF_pc(StartDue)
    /\ WF_vars(McDraw)
    /\ WF_trial(TrialDue)

EqIdle ==
    /\ call = NoCall
    /\ pc = "idle"
    /\ smp = NoSampler
    /\ used = {}
    /\ drawn = <<>>
    /\ trial = 0
    /\ scores = <<>>
    /\ results = <<>>
    /\ rem = <<>>
    /\ loopIdx = Exhausted
    /\ seen = {}
    /\ run = 1
    /\ prev = NoPrev
    /\ log = <<>>
    /\ ret = NoRet

----------------------------------------------------------------------------
(* Bounds of the evaluator specifications *)

\* The cards a hand is built from are the first DeckSize ids of EvalDeckOrder:
\* 2..6 and the Ace of clubs, then low cards and Aces of the other suits.
DeckSize == 16
EvalDeckOrder ==
    <<0, 1, 2, 3, 4, 12, 13, 14, 15, 25, 26, 27, 38, 39, 40, 51, 28, 41, 16, 29>>
EvalDeck == {EvalDeckOrder[i] : i \in 1..DeckSize}

\* The two hands of a comparison are drawn from the first CmpDeckSize ids of
\* CmpDeckOrder: 7c 7d 7h Ac Kd Qh Js 2c, then 7s.
CmpDeckSize == 8
CmpDeckOrder == <<5, 18, 31, 12, 24, 36, 48, 0, 44, 13>>
CmpDeck == {CmpDeckOrder[i] : i \in 1..CmpDeckSize}

CardCount(b) == popcnt13(b[1]) + popcnt13(b[2]) + popcnt13(b[3]) + popcnt13(b[4])

\* BitBoard4x13 built by add_id from a set of distinct ids
RECURSIVE board_from_set(_)
board_from_set(S) ==
    IF S = {} THEN BitBoardNew
    ELSE LET c == CHOOSE x \in S : TRUE
         IN  add_id(board_from_set(S \ {c}), c)

CmpHands == {board_from_set(S) : S \in {T \in SUBSET CmpDeck : Cardinality(T) \in 5..7}}

----------------------------------------------------------------------------
(* Specification SpecEval: evaluate_u32_from_ids on 5 to 7 distinct cards *)

\* A hand is built from the empty board, or from 9d Jh: with these two cards
\* seven cards of seven ranks hold no straight
EvalStarts == {BitBoardNew, add_id(add_id(BitBoardNew, 20), 35)}

InitEval ==
    /\ hand \in EvalStarts
    /\ score = NoScore
    /\ handB = BitBoardNew
    /\ scoreB = NoScore
    /\ pcE = "build"
    /\ UnitIdle
    /\ EqIdle

\* b.add_id(id) for the next id of the slice
EvAddId(id) ==
    /\ pcE = "build"
    /\ CardCount(hand) < 7
    /\ ~add_id_already(hand, id)
    /\ hand' = add_id(hand, id)
    /\ UNCHANGED <<score, handB, scoreB, pcE>>
    /\ UNCHANGED unitVars
    /\ UNCHANGED eqVars

\* evaluate_u32(&b) once the slice is consumed
EvEvaluate ==
    /\ pcE = "build"
    /\ CardCount(hand) \in 5..7
    /\ score' = evaluate_u32(hand)
    /\ pcE' = "done"
    /\ UNCHANGED <<hand, handB, scoreB>>
    /\ UNCHANGED unitVars
    /\ UNCHANGED eqVars

NextEval == (\E id \in EvalDeck : EvAddId(id)) \/ EvEvaluate

SpecEval == InitEval /\ [][NextEval]_vars

----------------------------------------------------------------------------
(* Specification SpecCmp: two hands evaluated and their scores compared *)

InitCmp ==
    /\ hand \in CmpHands
    /\ handB \in CmpHands
    /\ score = NoScore
    /\ scoreB = NoScore
    /\ pcE = "pair"
    /\ UnitIdle
    /\ EqIdle

EvComparePair ==
    /\ pcE = "pair"
    /\ score' = evaluate_u32(hand)
    /\ scoreB' = evaluate_u32(handB)
    /\ pcE' = "done"
    /\ UNCHANGED <<hand, handB>>
    /\ UNCHANGED unitVars
    /\ UNCHANGED eqVars

NextCmp == EvComparePair

SpecCmp == InitCmp /\ [][NextCmp]_vars

----------------------------------------------------------------------------
(* Poker hand strength under the standard rules, on sets of card ids *)

RankOf(c) == c % 13
SuitOf(c) == c \div 13

\* The ids present on a bitboard
CardsOf(b) == {c \in 0..51 : (b[SuitOf(c) + 1] \div (2 ^ RankOf(c))) % 2 = 1}

RankCount(S, r) == Cardinality({c \in S : RankOf(c) = r})
RanksIn(S) == {RankOf(c) : c \in S}

SetMax(R) == CHOOSE x \in R : \A y \in R : y <= x

\* The n greatest members of R, greatest first
RECURSIVE TopDesc(_, _)
TopDesc(R, n) ==
    IF n = 0 \/ R = {} THEN <<>>
    ELSE <<SetMax(R)>> \o TopDesc(R \ {SetMax(R)}, n - 1)

\* The ranks of a five-card hand ordered by (multiplicity, rank), greatest first
RECURSIVE ByCountThenRank(_, _)
ByCountThenRank(S, R) ==
    IF R = {} THEN <<>>
    ELSE LET best == CHOOSE x \in R : \A y \in R :
                         RankCount(S, y) * 13 + y <= RankCount(S, x) * 13 + x
         IN  <<best>> \o ByCountThenRank(S, R \ {best})

\* The top rank of a five-card straight, -1 if the five cards are no straight
StraightTopOf(S) ==
    LET R == RanksIn(S)
    IN  IF Cardinality(R) # 5 THEN -1
        ELSE IF SetMax(R) - (CHOOSE x \in R : \A y \in R : x <= y) = 4 THEN SetMax(R)
        ELSE IF R = {12, 0, 1, 2, 3} THEN 3
        ELSE -1

\* Category and tie-break ranks of exactly five cards, as one number in base 13
PokerKey5(S) ==
    LET R == RanksIn(S)
        isFlush == Cardinality({SuitOf(c) : c \in S}) = 1
        top == StraightTopOf(S)
        counts == {RankCount(S, r) : r \in R}
        cat == IF isFlush /\ top >= 0 THEN 8
               ELSE IF 4 \in counts THEN 7
               ELSE IF 3 \in counts /\ 2 \in counts THEN 6
               ELSE IF isFlush THEN 5
               ELSE IF top >= 0 THEN 4
               ELSE IF 3 \in counts THEN 3
               ELSE IF Cardinality(R) = 3 THEN 2
               ELSE IF Cardinality(R) = 4 THEN 1
               ELSE 0
        t == IF top >= 0 THEN <<top>> ELSE ByCountThenRank(S, R)
        slot(i) == IF i <= Len(t) THEN t[i] ELSE 0
    IN  ((((cat * 13 + slot(1)) * 13 + slot(2)) * 13 + slot(3)) * 13 + slot(4)) * 13
        + slot(5)

\* The strength of the best five-card hand among 5 to 7 cards
PokerKey(S) ==
    SetMax({PokerKey5(T) : T \in {U \in SUBSET S : Cardinality(U) = 5}})

Cmp(a, b) == IF a < b THEN -1 ELSE IF a > b THEN 1 ELSE 0

----------------------------------------------------------------------------
(* Claims on the evaluator *)

\* C1: for two hands of 5 to 7 distinct cards, the packed scores compare
\* (less, equal, greater) exactly as the hands' best five-card poker hands
\* compare under the standard rules.
C1_ScoreOrderIsPokerOrder ==
    (pcE = "done" /\ scoreB # NoScore) =>
        Cmp(score, scoreB) = Cmp(PokerKey(CardsOf(hand)), PokerKey(CardsOf(handB)))

\* C2: a hand classified OnePair has the pair rank in slot r0 and the three
\* highest remaining ranks, in descending order, in slots r1, r2, r3.
C2_OnePairKickers ==
    (pcE = "done" /\ ScoreCat(score) = OnePair) =>
        LET S == CardsOf(hand)
            pr == ScoreSlot(score, 0)
            k == TopDesc(RanksIn(S) \ {pr}, 3)
        IN  /\ RankCount(S, pr) = 2
            /\ Len(k) = 3
            /\ <<ScoreSlot(score, 1), ScoreSlot(score, 2), ScoreSlot(score, 3)>> = k

\* C3: a hand classified Trips has the highest rank of exactly three cards in
\* slot r0 and the two highest remaining ranks, r1 > r2, in slots r1, r2.
C3_TripsKickers ==
    (pcE = "done" /\ ScoreCat(score) = Trips) =>
        LET S == CardsOf(hand)
            tr == ScoreSlot(score, 0)
            k == TopDesc(RanksIn(S) \ {tr}, 2)
        IN  /\ tr = SetMax({r \in RanksIn(S) : RankCount(S, r) = 3})
            /\ Len(k) = 2
            /\ <<ScoreSlot(score, 1), ScoreSlot(score, 2)>> = k

----------------------------------------------------------------------------
(* equity.rs: the error return, compare_showdown_checked and                *)
(* equity_exact_vs_random_checked                                           *)

\* The `?` / `return Err(..)` at the head of every checked entry point
EntryError ==
    /\ pc = "start"
    /\ ~Validate(call).ok
    /\ pc' = "done"
    /\ ret' = Validate(call)
    /\ UNCHANGED <<call, smp, used, drawn, trial, scores, results, rem, loopIdx, seen,
                   run, prev, log>>
    /\ UNCHANGED evalVars

\* compare_showdown_checked on valid arguments
CmpShowdown ==
    /\ pc = "start"
    /\ call.entry = "compare_showdown"
    /\ Validate(call).ok
    /\ used' = Validate(call).val
    /\ pc' = "done"
    /\ scores' = multiway_scores(TrialPlayers(call, drawn), call.board)
    /\ ret' = Ok(Outcome(scores'[1], scores'[2]))
    /\ UNCHANGED <<call, smp, drawn, trial, results, rem, loopIdx, seen,
                   run, prev, log>>
    /\ UNCHANGED evalVars

\* The position (from 0) of card c in r
PosIn(r, c) == (CHOOSE i \in 1..Len(r) : r[i] = c) - 1

NoVillainLeft == <<>>

\* The first villain of the loops over i < j in rem1
first_villain(r) == IF Len(r) >= 2 THEN <<r[1], r[2]>> ELSE NoVillainLeft

\* The villain after v in the loops over i < j in rem1
next_villain(r, v) ==
    LET i == PosIn(r, v[1])
        j == PosIn(r, v[2])
    IN  IF j + 1 < Len(r) THEN <<r[i + 1], r[j + 2]>>
        ELSE IF i + 2 < Len(r) THEN <<r[i + 2], r[i + 3]>>
        ELSE NoVillainLeft

\* Against a random hand with board cards missing, the villain loops run over
\* the first MaxRem unused cards only; on a full board they run over all.
VrScope(r, missing) ==
    IF missing >= 1 /\ Len(r) > MaxRem THEN SubSeq(r, 1, MaxRem) ELSE r

\* rem2 that still holds the villain's two cards.
rem2_of_VillainKept(u, v, missing) ==
    LET r2 == fill_remaining_cards(u)
    IN  IF missing >= 1 /\ Len(r2) > MaxRem - 2 THEN SubSeq(r2, 1, MaxRem - 2) ELSE r2

\* rem2: the cards left once the villain is removed too; of the cards the
\* villain loops run over, these are the first MaxRem - 2 of them.
rem2_of(u, v, missing) ==
    LET r2 == fill_remaining_cards(u \cup {v[1], v[2]})
    IN  IF missing >= 1 /\ Len(r2) > MaxRem - 2 THEN SubSeq(r2, 1, MaxRem - 2) ELSE r2

\* Entry of equity_exact_vs_random_checked on valid arguments.  Every rem2
\* holds at least as many cards as are missing, so every villain has a first
\* board completion.
ExVrStart ==
    /\ pc = "start"
    /\ call.entry = "exact_vs_random"
    /\ Validate(call).ok
    /\ used' = Validate(call).val
    /\ rem' = VrScope(fill_remaining_cards(used'), Missing(call))
    /\ drawn' = first_villain(rem')
    /\ loopIdx' = IF drawn' = NoVillainLeft THEN Exhausted
                  ELSE first_indices(Len(rem2_of(used', drawn', Missing(call))),
                                     Missing(call))
    /\ results' = <<EquityCountsDefault>>
    /\ trial' = 0
    /\ seen' = {}
    /\ scores' = <<>>
    /\ pc' = IF loopIdx' = Exhausted THEN "done" ELSE "enumvr"
    /\ ret' = IF loopIdx' = Exhausted THEN Ok(results') ELSE NoRet
    /\ UNCHANGED <<call, smp, run, prev, log>>
    /\ UNCHANGED evalVars

\* One call of the closure of equity_exact_vs_random_checked, then the
\* advance of the board loops and, when they are exhausted, of the villain loops
ExVrStep ==
    /\ pc = "enumvr"
    /\ LET missing == Missing(call)
           rem2 == rem2_of(used, drawn, missing)
           fill == CompletionOf(rem2, loopIdx)
           board5 == call.board \o fill
           nextIx == next_indices(Len(rem2), missing, loopIdx)
           nextV == next_villain(rem, drawn)
       IN  /\ scores' = multiway_scores(TrialPlayers(call, drawn), board5)
           /\ results' = TrialBump(call, scores', results)
           /\ seen' = seen \cup {<<{drawn[1], drawn[2]}, {fill[i] : i \in 1..Len(fill)}>>}
           /\ trial' = trial + 1
           /\ IF nextIx # Exhausted
              THEN /\ loopIdx' = nextIx
                   /\ pc' = "enumvr"
                   /\ UNCHANGED <<drawn, ret>>
              ELSE IF nextV # NoVillainLeft
              THEN /\ drawn' = nextV
                   /\ loopIdx' = first_indices(Len(rem2_of(used, nextV, missing)), missing)
                   /\ pc' = "enumvr"
                   /\ UNCHANGED ret
              ELSE /\ loopIdx' = Exhausted
                   /\ pc' = "done"
                   /\ ret' = Ok(results')
                   /\ UNCHANGED drawn
    /\ UNCHANGED <<call, smp, used, rem, run, prev, log>>
    /\ UNCHANGED evalVars

----------------------------------------------------------------------------
(* Specification SpecValidate: one call of a checked entry point on         *)
(* arguments that may break any of the validation rules.                    *)

\* The board of tests::showdown_compare_deterministic: 2c 3d 4h 5s 9c
ScenarioBoard == <<0, 14, 28, 42, 7>>

\* The board of tests::multiway_complete_board_deterministic, As Ks Qs Js Ts,
\* and the same cards in ascending order
RoyalBoards == {<<51, 50, 49, 48, 47>>, <<47, 48, 49, 50, 51>>}

ValidateHeroes == {<<0, 1>>, <<0, 0>>, <<52, 1>>, <<1, 60>>}
ValidateVillains == {<<2, 3>>, <<0, 3>>, <<2, 2>>, <<52, 3>>}
ValidateBoards ==
    {<<>>, <<4, 5, 6, 7>>, <<4, 5, 6, 7, 8>>, <<4, 5, 4, 7, 8>>, <<4, 1, 6, 7, 8>>,
     <<4, 5, 6, 7, 52>>, <<4, 5, 6, 7, 8, 9>>, <<52, 52, 4, 5, 6, 7>>, <<4, 4, 4, 4, 4, 4>>}

\* Ten players with distinct valid cards: one more than the entry points take
TenHands == [i \in 1..10 |-> <<2 * i + 8, 2 * i + 9>>]

ValidateHands ==
    {<<h>> : h \in ValidateHeroes}
    \cup {<<h, v>> : h \in ValidateHeroes, v \in ValidateVillains}
    \cup {<<h, v, <<10, 11>>>> : h \in ValidateHeroes, v \in ValidateVillains}
    \cup {<<>>} \cup {SubSeq(TenHands, 1, n) : n \in 4..10}

\* Valid boards of 1, 2 and 3 cards
ShortBoards == {<<4>>, <<4, 5>>, <<4, 5, 6>>, <<0, 14, 28>>}

\* Hole cards tried in every combination of two hands, valid or not:
\* 9s 8s Ac Ad 2c 9h
RoyalDeck == {46, 45, 12, 25, 0, 33}

\* Hands for a royal board: 2 to 9 players on ids 10..27, the three hands of
\* the test, hands holding further spades, Aces and Kings, and every two
\* hands over RoyalDeck
RoyalHands ==
    {SubSeq(TenHands, 1, n) : n \in 2..9}
    \cup {<<<<0, 1>>, <<13, 14>>, <<26, 27>>>>,
          <<<<46, 45>>, AA>>, <<AA, KK, <<46, 45>>>>, <<<<39, 40>>, <<12, 11>>>>}
    \cup {<<<<a, b>>, <<c, d>>>> : a \in RoyalDeck, b \in RoyalDeck, c \in RoyalDeck, d \in RoyalDeck}

ValidateCalls ==
    {c \in
        [entry : {"compare_showdown"},
         hands : {h \in ValidateHands : Len(h) = 2},
         nvill : {0}, board : {b \in ValidateBoards : Len(b) = 5},
         iters : {0}, seed : {0}]
        \cup
        [entry : {"compare_showdown"},
         hands : {<<AA, KK>>, <<KK, AA>>},
         nvill : {0}, board : {ScenarioBoard},
         iters : {0}, seed : {0}]
        \cup
        [entry : {"exact_multiway"},
         hands : RoyalHands,
         nvill : {0}, board : RoyalBoards, iters : {0}, seed : {1}]
        \cup
        [entry : {"mc_vs_hand", "exact_vs_hand"},
         hands : {h \in ValidateHands : Len(h) = 2},
         nvill : {0}, board : ValidateBoards, iters : {0, 1}, seed : {1}]
        \cup
        [entry : {"mc_vs_random", "exact_vs_random"},
         hands : {h \in ValidateHands : Len(h) = 1},
         nvill : {0}, board : ValidateBoards, iters : {0, 1}, seed : {1}]
        \cup
        [entry : {"exact_vs_random"},
         hands : {<<AA>>, <<<<0, 1>>>>},
         nvill : {0}, board : ShortBoards, iters : {0}, seed : {1}]
        \cup
        [entry : {"mc_multiway", "exact_multiway"},
         hands : ValidateHands,
         nvill : {0}, board : ValidateBoards, iters : {0, 1}, seed : {1}]
        \cup
        [entry : {"mc_vs_random_multiway"},
         hands : {h \in ValidateHands : Len(h) = 1},
         nvill : 0..9, board : ValidateBoards, iters : {0, 1}, seed : {1}] :
        /\ c.entry \notin McEntries => c.iters = 0
        /\ c.entry = "exact_multiway" => (Len(c.board) >= 4 \/ ~Validate(c).ok)}

InitValidate ==
    /\ call \in ValidateCalls
    /\ pc = "start"
    /\ smp = NoSampler
    /\ used = {}
    /\ drawn = <<>>
    /\ trial = 0
    /\ scores = <<>>
    /\ results = <<>>
    /\ rem = <<>>
    /\ loopIdx = Exhausted
    /\ seen = {}
    /\ run = 1
    /\ prev = NoPrev
    /\ log = <<>>
    /\ ret = NoRet
    /\ EvalIdle

NextValidate ==
    \/ EntryError
    \/ CmpShowdown
    \/ McStart
    \/ McDraw
    \/ McTrial
    \/ ExStart
    \/ ExStep
    \/ ExVrStart
    \/ ExVrStep

SpecValidate == InitValidate /\ [][NextValidate]_vars

----------------------------------------------------------------------------
(* Claims on the equity engine *)

HeadsUpMc == {"mc_vs_hand", "mc_vs_random", "mc_vs_random_multiway"}
KnownMultiway == {"mc_multiway", "exact_multiway"}

RECURSIVE Choose(_, _)
Choose(n, k) ==
    IF k = 0 THEN 1
    ELSE IF n < k THEN 0
    ELSE Choose(n - 1, k - 1) + Choose(n - 1, k)

RECURSIVE SumTotals(_)
SumTotals(res) == IF res = <<>> THEN 0 ELSE total(Head(res)) + SumTotals(Tail(res))

\* C4: a Monte Carlo entry point that returns a single EquityCounts returns
\* counts with win + tie + lose equal to the iteration count, 0 included.
C4_McCountsSumToIters ==
    (pc = "done" /\ call.entry \in HeadsUpMc) =>
        /\ ret.ok
        /\ Len(ret.val) = 1
        /\ total(ret.val[1]) = call.iters

C4_Witness ==
    /\ pc = "done"
    /\ call.entry = "mc_vs_random"
    /\ call.iters = 2
    /\ ret.ok
    /\ total(ret.val[1]) = 2

\* C5: every Monte Carlo call on valid arguments, whatever the seed (0
\* included), terminates: it reaches its return.
C5_McTerminates == (call.entry \in McEntries) => <>(pc = "done")

\* C6: the multiway entry points over known hands return one EquityCounts per
\* player, each with win + tie + lose equal to the number of trials T (the
\* iteration count, or the number of board completions), n * T in all.
C6_MultiwayTotals ==
    (call.entry \in KnownMultiway /\ pc = "done") =>
        LET T == IF call.entry = "mc_multiway" THEN call.iters ELSE trial
        IN  /\ ret.ok
            /\ Len(ret.val) = Len(call.hands)
            /\ \A i \in 1..Len(ret.val) : total(ret.val[i]) = T
            /\ SumTotals(ret.val) = Len(call.hands) * T

C6_Witness ==
    /\ pc = "done"
    /\ call.entry = "mc_multiway"
    /\ Len(call.hands) = 4
    /\ call.iters = 2
    /\ SumTotals(ret.val) = 8

\* C7: in a multiway trial the winners are exactly the players whose score is
\* the maximum; a sole winner's win and every other player's lose increase by
\* one; two or more winners' tie and every other player's lose increase by
\* one; no other counter changes.  With random villains only hero is counted.
MaxScoreHolders(sc) ==
    {i \in 1..Len(sc) : \A j \in 1..Len(sc) : sc[j] <= sc[i]}

CountsAfter(c, i, W) ==
    [win  |-> c.win + (IF W = {i} THEN 1 ELSE 0),
     tie  |-> c.tie + (IF i \in W /\ W # {i} THEN 1 ELSE 0),
     lose |-> c.lose + (IF i \notin W THEN 1 ELSE 0)]

C7_TrialStep ==
    (trial' = trial + 1 /\ call.entry \in KnownMultiway \cup {"mc_vs_random_multiway"}) =>
        LET W == MaxScoreHolders(scores')
        IN  /\ W # {}
            /\ Len(results') = Len(results)
            /\ \A i \in 1..Len(results) : results'[i] = CountsAfter(results[i], i, W)

C7_WinnerSetCounters == [][C7_TrialStep]_vars

C7_Witness ==
    /\ call.entry = "exact_multiway"
    /\ Len(call.hands) = 3
    /\ trial >= 2
    /\ \E i \in 1..3 : results[i].win >= 1
    /\ \E i \in 1..3 : results[i].tie >= 1
    /\ \E i \in 1..3 : results[i].lose >= 1

\* C8: the exact entry points against known hands hand each (5-k)-card subset
\* of the enumerated unused cards to the evaluation exactly once, so every
\* player's total is the number of such subsets; a full board gives total 1.
UnusedCards == (0..(NumCards - 1)) \ used

EnumeratedCards ==
    IF Missing(call) >= 3 /\ Cardinality(UnusedCards) > MaxRem
    THEN {c \in UnusedCards : Cardinality({x \in UnusedCards : x < c}) < MaxRem}
    ELSE UnusedCards

C8_ExactTotals ==
    (call.entry \in ExactEntries /\ pc \in {"enum", "done"}) =>
        /\ Cardinality(seen) = trial
        /\ \A F \in seen : F \subseteq EnumeratedCards /\ Cardinality(F) = Missing(call)
        /\ pc = "done" =>
            /\ ret.ok
            /\ \A i \in 1..Len(ret.val) :
                  total(ret.val[i]) = Choose(Cardinality(EnumeratedCards), Missing(call))
            /\ Len(call.board) = 5 => \A i \in 1..Len(ret.val) : total(ret.val[i]) = 1

C8_Witness ==
    /\ pc = "done"
    /\ call.entry = "exact_vs_hand"
    /\ Len(call.board) = 3
    /\ Cardinality(UnusedCards) = 45
    /\ total(ret.val[1]) = 990

SuppliedIds(c) == FlatHands(c.hands) \o c.board

RepeatedIds(c) ==
    LET ids == SuppliedIds(c)
    IN  {x \in 0..(NumCards - 1) :
            \E i, j \in 1..Len(ids) : i # j /\ ids[i] = x /\ ids[j] = x}

OutOfRangeIds(c) ==
    LET ids == SuppliedIds(c)
    IN  {ids[i] : i \in {k \in 1..Len(ids) : ids[k] >= NumCards}}

PlayerCountError(c) ==
    CASE c.entry \in KnownMultiway ->
            IF Len(c.hands) < 2 THEN "TooFewPlayers"
            ELSE IF Len(c.hands) > 9 THEN "TooManyPlayers"
            ELSE "none"
      [] c.entry = "mc_vs_random_multiway" ->
            IF c.nvill < 1 THEN "TooFewPlayers"
            ELSE IF c.nvill > 8 THEN "TooManyPlayers"
            ELSE "none"
      [] OTHER -> "none"

CardsOnlyCall(c) == PlayerCountError(c) = "none" /\ Len(c.board) <= 5

AllIdsValid(c) ==
    /\ RepeatedIds(c) = {}
    /\ OutOfRangeIds(c) = {}
    /\ Len(c.board) <= 5

Offends(ids, i) == ids[i] >= NumCards \/ \E j \in 1..(i - 1) : ids[j] = ids[i]

FirstOffence(ids) ==
    CHOOSE i \in 1..Len(ids) : Offends(ids, i) /\ \A j \in 1..(i - 1) : ~Offends(ids, j)

HeadsUpEntries ==
    {"compare_showdown", "mc_vs_hand", "exact_vs_hand", "mc_vs_random", "exact_vs_random"}

\* C11: a checked heads-up entry point given a hero or villain card that is
\* out of range or repeated returns the error of the first such card in the
\* order hero, villain, whatever the board is, a board of more than 5 cards
\* included.
C11_HoleCardsBeforeBoard ==
    LET holes == FlatHands(call.hands)
    IN  (/\ pc = "done"
         /\ call.entry \in HeadsUpEntries
         /\ \E i \in 1..Len(holes) : Offends(holes, i)) =>
            LET x == holes[FirstOffence(holes)]
            IN  ret = IF x >= NumCards THEN CardOutOfRange(x) ELSE DuplicateCard(x)

\* The player count of a multiway call: hands given, or random opponents asked
PlayerCount(c) == IF c.entry = "mc_vs_random_multiway" THEN c.nvill ELSE Len(c.hands)
MinPlayerCount(c) == IF c.entry = "mc_vs_random_multiway" THEN 1 ELSE 2
MaxPlayerCount(c) == IF c.entry = "mc_vs_random_multiway" THEN 8 ELSE 9

\* C12: the multiway entry points return TooFewPlayers below their lower bound
\* (2 hands, 1 random opponent) and TooManyPlayers above their upper bound
\* (9 hands, 8 random opponents) whatever the board and the ids are; with the
\* count in bounds a board of more than 5 cards gives TooManyBoardCards(len),
\* and with valid distinct ids every count in bounds returns Ok.
C12_PlayerCountBounds ==
    (pc = "done" /\ call.entry \in KnownMultiway \cup {"mc_vs_random_multiway"}) =>
        LET n == PlayerCount(call)
        IN  /\ n < MinPlayerCount(call) => ret = TooFewPlayers
            /\ n > MaxPlayerCount(call) => ret = TooManyPlayers
            /\ (n \in MinPlayerCount(call)..MaxPlayerCount(call) /\ Len(call.board) > 5) =>
                    ret = TooManyBoardCards(Len(call.board))
            /\ (n \in MinPlayerCount(call)..MaxPlayerCount(call) /\ AllIdsValid(call)) =>
                    ret.ok

\* Ten hands with a six-card board holding id 52 twice: TooManyPlayers
C12_Witness ==
    /\ pc = "done"
    /\ call.entry = "exact_multiway"
    /\ Len(call.hands) = 10
    /\ call.board = <<52, 52, 4, 5, 6, 7>>
    /\ ret = TooManyPlayers

----------------------------------------------------------------------------
(* Claims on evaluate_u32 under SpecEval *)

\* Ace, Two, Three, Four, Five as rank indices
WheelRanks == {12, 0, 1, 2, 3}

\* No suit of S holds five cards
NotOneSuit(S) == \A su \in 0..3 : Cardinality({c \in S : SuitOf(c) = su}) < 5

WheelScore == pack_score(Straight, 3, 0, 0, 0, 0)

\* C13: a hand whose ranks are exactly A, 2, 3, 4, 5, not of one suit, scores
\* Straight with slot r0 = 3; that score is below the score of every
\* Six-high straight (Straight, r0 = 4) and above the score of every Trips hand.
C13_WheelIsLowestStraight ==
    (pcE = "done") =>
        /\ (RanksIn(CardsOf(hand)) = WheelRanks /\ NotOneSuit(CardsOf(hand))) =>
                /\ ScoreCat(score) = Straight
                /\ ScoreSlot(score, 0) = 3
                /\ score = WheelScore
        /\ (ScoreCat(score) = Straight /\ ScoreSlot(score, 0) = 4) => WheelScore < score
        /\ ScoreCat(score) = Trips => score < WheelScore

\* Ad 2c 3d 4c 5c evaluated
C13_Witness ==
    /\ pcE = "done"
    /\ CardsOf(hand) = {25, 0, 14, 2, 3}
    /\ ScoreCat(score) = Straight
    /\ ScoreSlot(score, 0) = 3

\* The number of tie-break slots a category uses
SlotsUsed(cat) ==
    CASE cat \in {StraightFlush, Straight} -> 1
      [] cat \in {Quads, FullHouse} -> 2
      [] cat \in {Trips, TwoPair} -> 3
      [] cat = OnePair -> 4
      [] OTHER -> 5

\* C19: on every hand of 5 to 7 distinct cards evaluate_u32 meets no
\* overflowing shift or subtraction and returns a score from one of its
\* branches; no -1 of a highest-bit lookup is packed (it would read back as
\* slot 15); the category is in 0..8, every slot is in 0..12, and the slots the
\* category does not use are zero.
C19_WellFormedScore ==
    (pcE = "done" /\ CardCount(hand) \in 5..7) =>
        /\ ~evaluate_u32_panics(hand)
        /\ score # NoScore
        /\ score \in 0..(9 * 1048576 - 1)
        /\ ScoreCat(score) \in HighCard..StraightFlush
        /\ \A i \in 0..4 : ScoreSlot(score, i) \in 0..12
        /\ \A i \in 0..4 : i >= SlotsUsed(ScoreCat(score)) => ScoreSlot(score, i) = 0

\* A six-card hand holding one pair has been evaluated
C19_Witness ==
    /\ pcE = "done"
    /\ CardCount(hand) = 6
    /\ ScoreCat(score) = OnePair
    /\ ScoreSlot(score, 3) \in 0..12
    /\ ScoreSlot(score, 4) = 0

\* The ranks of which S holds exactly n cards
RanksWithCount(S, n) == {r \in 0..12 : RankCount(S, r) = n}

SetMin(R) == CHOOSE x \in R : \A y \in R : x <= y

\* C20: a 7-card hand with exactly three cards in each of two ranks a > b
\* scores FullHouse with slots (a, b); a hand with exactly three cards of one
\* rank t and one or more ranks of exactly two cards scores FullHouse with
\* slots (t, the highest such pair rank), whether that rank is above or below
\* t and whether or not a lower pair is present too.
C20_FullHouseRanks ==
    (pcE = "done") =>
        LET S == CardsOf(hand)
            T3 == RanksWithCount(S, 3)
            P2 == RanksWithCount(S, 2)
        IN  /\ (Cardinality(S) = 7 /\ Cardinality(T3) = 2) =>
                  /\ ScoreCat(score) = FullHouse
                  /\ ScoreSlot(score, 0) = SetMax(T3)
                  /\ ScoreSlot(score, 1) = SetMin(T3)
            /\ (Cardinality(T3) = 1 /\ P2 # {}) =>
                  /\ ScoreCat(score) = FullHouse
                  /\ ScoreSlot(score, 0) = SetMax(T3)
                  /\ ScoreSlot(score, 1) = SetMax(P2)

\* Three 2s with a pair of Aces and a pair of 3s: FullHouse, slots (0, 12)
C20_Witness ==
    /\ pcE = "done"
    /\ RankCount(CardsOf(hand), 0) = 3
    /\ RankCount(CardsOf(hand), 12) = 2
    /\ RankCount(CardsOf(hand), 1) = 2
    /\ score = pack_score(FullHouse, 0, 12, 0, 0, 0)

----------------------------------------------------------------------------
(* Specification SpecPack: pack_score applied to two argument lists *)

\* The rank indices tried in each slot: the least and the greatest
PackRanks == {0, 12}

\* <<cat, r0, r1, r2, r3, r4>>
PackArgs ==
    {<<c, r0, r1, r2, r3, r4>> :
        c \in HighCard..StraightFlush,
        r0 \in PackRanks, r1 \in PackRanks, r2 \in PackRanks, r3 \in PackRanks,
        r4 \in PackRanks}

InitPack ==
    /\ packA \in PackArgs
    /\ packB \in PackArgs
    /\ hand = BitBoardNew
    /\ score = NoScore
    /\ handB = BitBoardNew
    /\ scoreB = NoScore
    /\ lastOp = NoOp
    /\ lutArg = NoLut
    /\ lutRet = NoLut
    /\ pcE = "pack"
    /\ EqIdle

\* pack_score on each argument list
PackBoth ==
    /\ pcE = "pack"
    /\ score' = pack_score(packA[1], packA[2], packA[3], packA[4], packA[5], packA[6])
    /\ scoreB' = pack_score(packB[1], packB[2], packB[3], packB[4], packB[5], packB[6])
    /\ pcE' = "done"
    /\ UNCHANGED <<hand, handB, packA, packB, lutArg, lutRet, lastOp>>
    /\ UNCHANGED eqVars

NextPack == PackBoth

SpecPack == InitPack /\ [][NextPack]_vars

\* C14: of two scores packed from categories c1 > c2 in 0..8, with any rank
\* indices in the five slots, the score of category c1 is the greater number.
C14_CategoryDominates ==
    (pcE = "done" /\ packA # NoArgs /\ packA[1] > packB[1]) => score > scoreB

\* OnePair with every slot 0 against HighCard with every slot 12
C14_Witness ==
    /\ pcE = "done"
    /\ packA = <<OnePair, 0, 0, 0, 0, 0>>
    /\ packB = <<HighCard, 12, 12, 12, 12, 12>>
    /\ score > scoreB

----------------------------------------------------------------------------
(* Claims on single calls under SpecValidate *)

\* C15: compare_showdown_checked with hero {Ac, Ad} (12, 25), villain
\* {Kc, Kd} (11, 24) and board {2c, 3d, 4h, 5s, 9c} (0, 14, 28, 42, 7)
\* returns Ok(HeroWin).
C15_ScenarioHeroWins ==
    (/\ pc = "done"
     /\ call.entry = "compare_showdown"
     /\ call.hands = <<<<12, 25>>, <<11, 24>>>>
     /\ call.board = <<0, 14, 28, 42, 7>>) => ret = Ok("HeroWin")

\* The scenario's call has returned; the hero's score is the greater
C15_Witness ==
    /\ pc = "done"
    /\ call.entry = "compare_showdown"
    /\ call.hands = <<AA, KK>>
    /\ call.board = ScenarioBoard
    /\ ret.ok
    /\ scores[1] > scores[2]

\* C16: on the complete board Ts Js Qs Ks As (ids 47..51), with 2 to 9 players
\* holding valid hole cards disjoint from the board and from each other,
\* equity_exact_multiway_checked returns win = 0, tie = 1, lose = 0 for every
\* player.
C16_BoardPlaysForAll ==
    (/\ pc = "done"
     /\ call.entry = "exact_multiway"
     /\ {call.board[i] : i \in 1..Len(call.board)} = 47..51
     /\ Len(call.hands) \in 2..9
     /\ AllIdsValid(call)) =>
        /\ ret.ok
        /\ Len(ret.val) = Len(call.hands)
        /\ \A i \in 1..Len(call.hands) : ret.val[i] = [win |-> 0, tie |-> 1, lose |-> 0]

\* Nine players on the royal board, the one completion counted
C16_Witness ==
    /\ pc = "done"
    /\ call.entry = "exact_multiway"
    /\ call.board \in RoyalBoards
    /\ Len(call.hands) = 9
    /\ ret.ok
    /\ trial = 1

\* The cards the villain loops of equity_exact_vs_random_checked run over
VillainCards == {rem[i] : i \in 1..Len(rem)}

\* C17: equity_exact_vs_random_checked with a valid hero and k valid board
\* cards counts every pair of
\* (an unordered two-card villain hand from the enumerated unused cards, an
\* unordered (5-k)-card completion from those cards less the villain's)
\* exactly once, the cards of a trial being pairwise distinct; its total is
\* C(n, 2) * C(n - 2, 5 - k), n the number of enumerated cards, which is
\* 50 - k whenever the enumeration runs over all unused cards.
C17_ExactVsRandomTotals ==
    (call.entry = "exact_vs_random" /\ AllIdsValid(call) /\ pc \in {"enumvr", "done"}) =>
        LET n == Cardinality(VillainCards)
        IN  /\ Cardinality(seen) = trial
            /\ VillainCards \subseteq UnusedCards
            /\ Cardinality(used) = 2 + Len(call.board)
            /\ Len(rem) > MaxRem => VillainCards = UnusedCards /\ n = 50 - Len(call.board)
            /\ \A p \in seen :
                  /\ p[1] \subseteq VillainCards /\ Cardinality(p[1]) = 2
                  /\ p[2] \subseteq VillainCards \ p[1] /\ Cardinality(p[2]) = Missing(call)
            /\ pc = "done" =>
                  /\ ret.ok
                  /\ total(ret.val[1]) = Choose(n, 2) * Choose(n - 2, Missing(call))

\* A call on a flop has returned
C17_Witness ==
    /\ pc = "done"
    /\ call.entry = "exact_vs_random"
    /\ Len(call.board) = 3
    /\ ret.ok
    /\ trial = Cardinality(seen)
    /\ trial > 100

----------------------------------------------------------------------------
(* Specification SpecBoard: add_card, add_id and remove_card on one board *)

\* The cards operated on are the first OpsDeckSize ids of OpsDeckOrder:
\* As 2c Ac 2d Ah, then Ad 2h
OpsDeckSize == 5
OpsDeckOrder == <<51, 0, 12, 13, 38, 25, 26>>
OpsDeck == {OpsDeckOrder[i] : i \in 1..OpsDeckSize}

InitBoard ==
    /\ hand = BitBoardNew
    /\ lastOp = NoOp
    /\ pcE = "ops"
    /\ score = NoScore
    /\ handB = BitBoardNew
    /\ scoreB = NoScore
    /\ packA = NoArgs
    /\ packB = NoArgs
    /\ lutArg = NoLut
    /\ lutRet = NoLut
    /\ EqIdle

\* b.add_card(card)
OpAddCard(card) ==
    /\ pcE = "ops"
    /\ hand' = add_card(hand, card)
    /\ lastOp' = [op |-> "add_card", card |-> Card_id(card),
                  ret |-> add_card_already(hand, card),
                  removed |-> lastOp.removed \ {Card_id(card)},
                  present |-> lastOp.present \cup {Card_id(card)}]
    /\ UNCHANGED <<score, handB, scoreB, pcE, packA, packB, lutArg, lutRet>>
    /\ UNCHANGED eqVars

\* b.add_id(id)
OpAddId(id) ==
    /\ pcE = "ops"
    /\ hand' = add_id(hand, id)
    /\ lastOp' = [op |-> "add_id", card |-> id,
                  ret |-> add_id_already(hand, id),
                  removed |-> lastOp.removed \ {id},
                  present |-> lastOp.present \cup {id}]
    /\ UNCHANGED <<score, handB, scoreB, pcE, packA, packB, lutArg, lutRet>>
    /\ UNCHANGED eqVars

\* b.remove_card(card)
OpRemoveCard(card) ==
    /\ pcE = "ops"
    /\ hand' = remove_card(hand, card)
    /\ lastOp' = [op |-> "remove_card", card |-> Card_id(card), ret |-> FALSE,
                  removed |-> lastOp.removed \cup {Card_id(card)},
                  present |-> lastOp.present \ {Card_id(card)}]
    /\ UNCHANGED <<score, handB, scoreB, pcE, packA, packB, lutArg, lutRet>>
    /\ UNCHANGED eqVars

\* b.clear()
OpClear ==
    /\ pcE = "ops"
    /\ hand' = clear(hand)
    /\ lastOp' = [op |-> "clear", card |-> 0, ret |-> FALSE,
                  removed |-> lastOp.removed, present |-> {}]
    /\ UNCHANGED <<score, handB, scoreB, pcE, packA, packB, lutArg, lutRet>>
    /\ UNCHANGED eqVars

NextBoard ==
    \/ \E id \in OpsDeck : OpAddCard(Card_new(id \div 13, id % 13))
    \/ \E id \in OpsDeck : OpAddId(id)
    \/ \E id \in OpsDeck : OpRemoveCard(Card_new(id \div 13, id % 13))
    \/ OpClear

SpecBoard == InitBoard /\ [][NextBoard]_vars

\* C18: add_card and add_id return false when the card was absent and true
\* when it was present; adding a present card leaves the board unchanged; the
\* first add of a card after its remove_card returns false.
C18_AddStep ==
    (pcE = "ops" /\ lastOp'.op \in {"add_card", "add_id"}) =>
        LET c == lastOp'.card
        IN  /\ lastOp'.ret = (c \in CardsOf(hand))
            /\ c \in CardsOf(hand) => hand' = hand
            /\ c \in lastOp.removed => lastOp'.ret = FALSE

C18_AddReportsPresence == [][C18_AddStep]_vars

\* The Ace of spades added again while present, after another card was removed
C18_Witness ==
    /\ pcE = "ops"
    /\ lastOp.op = "add_card"
    /\ lastOp.card = 51
    /\ lastOp.ret = TRUE
    /\ lastOp.removed # {}
    /\ 51 \in CardsOf(hand)

\* Bit r of the mask m
BitOf(m, r) == (m \div (2 ^ r)) % 2

\* The mask m with bit r cleared
WithoutBit(m, r) == m - BitOf(m, r) * (2 ^ r)

\* C23, in every state: each suit mask lies in the low 13 bits, and bit r of
\* suit mask s is set exactly when card (s, r) has been added and not removed
\* or cleared since.
C23_MasksMatchCards ==
    (pcE = "ops") =>
        /\ \A su \in 1..4 : hand[su] \in 0..MASK13
        /\ \A su \in 0..3, r \in 0..12 :
              BitOf(hand[su + 1], r) = 1 <=> (su * 13 + r) \in lastOp.present

\* C23, in every step: an add or a remove changes at most the bit of its card
\* and leaves the other three suit masks as they were; remove_card of an
\* absent card changes nothing.
C23_OneBitStep ==
    (pcE = "ops" /\ lastOp'.op \in {"add_card", "add_id", "remove_card"}) =>
        LET c == lastOp'.card
        IN  /\ \A su \in 0..3 : su # c \div 13 => hand'[su + 1] = hand[su + 1]
            /\ WithoutBit(hand'[c \div 13 + 1], c % 13) = WithoutBit(hand[c \div 13 + 1], c % 13)
            /\ (lastOp'.op = "remove_card" /\ c \notin lastOp.present) => hand' = hand

C23_BoardTracksCards == [](C23_MasksMatchCards) /\ [][C23_OneBitStep]_vars

\* The board has been cleared after holding cards, and a card added again
C23_Witness ==
    /\ pcE = "ops"
    /\ lastOp.op = "add_id"
    /\ lastOp.present = {51}
    /\ lastOp.removed # {}
    /\ hand = <<0, 0, 0, 4096>>

----------------------------------------------------------------------------
(* Further claims on the equity engine under SpecEquity *)

\* The known cards of a call: hole cards and board as supplied
KnownCards(c) == {SuppliedIds(c)[i] : i \in 1..Len(SuppliedIds(c))}

DrawnCards == {drawn[i] : i \in 1..Len(drawn)}

\* C21: while a Monte Carlo trial samples, the cards written so far are in
\* 0..51, pairwise distinct and distinct from every known card, and the
\* occupancy set is the known cards plus the cards written this trial, so
\* each trial starts from the known cards alone.
C21_TrialDrawsDistinct ==
    (call.entry \in McEntries /\ pc = "sample") =>
        /\ \A i \in 1..Len(drawn) : drawn[i] \in 0..(NumCards - 1)
        /\ Cardinality(DrawnCards) = Len(drawn)
        /\ DrawnCards \cap KnownCards(call) = {}
        /\ used = KnownCards(call) \cup DrawnCards

\* A later trial has written a card that an earlier trial of the call wrote
C21_Witness ==
    /\ pc = "sample"
    /\ trial >= 1
    /\ Len(drawn) >= 1
    /\ \E i \in 1..(Len(log) - Len(drawn)) : log[i][1] = drawn[Len(drawn)]

\* The word the next chunk is taken from, and the chunk: its low six bits
ChunkWord(sm) == IF sm.bits_left < 6 THEN next_u64(sm.rng) ELSE sm.pool
ChunkValue(sm) ==
    LET w == ChunkWord(sm)
    IN  w[0] + 2 * w[1] + 4 * w[2] + 8 * w[3] + 16 * w[4] + 32 * w[5]

\* C22: every pass of the sampling loop takes the next six bits of the current
\* word (a new word when fewer than six bits are left); a card is written only
\* when the chunk is below 52, and it is the chunk value itself; a chunk in
\* 52..63 writes nothing.  So every card returned is in 0..51.
C22_DrawStep ==
    (pc = "sample" /\ smp' # smp) =>
        LET v == ChunkValue(smp)
        IN  /\ smp'.pool = ShrW(ChunkWord(smp), 6)
            /\ smp'.bits_left = (IF smp.bits_left < 6 THEN 64 ELSE smp.bits_left) - 6
            /\ v >= 52 => (drawn' = drawn /\ log' = log)
            /\ drawn' # drawn =>
                  /\ v \in 0..51
                  /\ drawn' = Append(drawn, v)

C22_ChunksBelow52 == [][C22_DrawStep]_vars

\* A chunk in 52..63 has just been discarded: the sampler stands one chunk
\* after the last accepted card, and that chunk was 52 or more
C22_Witness ==
    /\ pc = "sample"
    /\ Len(log) >= 1
    /\ ChunkValue(log[Len(log)][2]) >= 52
    /\ smp = next_u6_state(log[Len(log)][2])

----------------------------------------------------------------------------
(* Specification SpecLut: straight_end13 on every 13-bit mask *)

InitLut ==
    /\ lutArg \in 0..(N13 - 1)
    /\ lutRet = NoLut
    /\ pcE = "lut"
    /\ hand = BitBoardNew
    /\ score = NoScore
    /\ handB = BitBoardNew
    /\ scoreB = NoScore
    /\ packA = NoArgs
    /\ packB = NoArgs
    /\ lastOp = NoOp
    /\ EqIdle

\* straight_end13(lutArg)
LookupStraightEnd ==
    /\ pcE = "lut"
    /\ lutRet' = straight_end13(lutArg)
    /\ pcE' = "done"
    /\ UNCHANGED <<hand, score, handB, scoreB, packA, packB, lutArg, lastOp>>
    /\ UNCHANGED eqVars

SpecLut == InitLut /\ [][LookupStraightEnd]_vars

\* The starts s in 0..8 of a run of five set bits s..s+4 of m
RunStarts(m) == {s \in 0..8 : \A i \in s..(s + 4) : BitOf(m, i) = 1}

\* C24: straight_end13(m) is s + 4 for the greatest start s in 0..8 of five
\* set bits s..s+4; without such a start it is 3 when the bits of Ace, Two,
\* Three, Four and Five are all set, whatever else is set, and -1 otherwise.
\* The mask A,2,3,4,5,6 gives 4 and the mask T,J,Q,K,A gives 12.
C24_StraightEnd ==
    (pcE = "done") =>
        /\ lutRet = IF RunStarts(lutArg) # {} THEN SetMax(RunStarts(lutArg)) + 4
                    ELSE IF \A i \in {12, 0, 1, 2, 3} : BitOf(lutArg, i) = 1 THEN 3
                    ELSE -1
        /\ lutArg = WHEEL_MASK + 16 => lutRet = 4
        /\ lutArg = 7936 => lutRet = 12

\* The wheel with a Nine and a King beside it: 3
C24_Witness ==
    /\ pcE = "done"
    /\ lutArg = WHEEL_MASK + 128 + 2048
    /\ lutRet = 3

----------------------------------------------------------------------------
(* Claims on the scores behind a showdown, under SpecValidate *)

\* The showdown of hero {Ac, Ad} against villain {Kc, Kd} on the board
\* {2c, 3d, 4h, 5s, 9c} has returned
ScenarioDone ==
    /\ pc = "done"
    /\ call.entry = "compare_showdown"
    /\ call.hands = <<AA, KK>>
    /\ call.board = ScenarioBoard

----------------------------------------------------------------------------
(* Claims on the trials of the equity engine, under SpecEquity *)

HeadsUpTrialEntries == {"mc_vs_hand", "mc_vs_random", "exact_vs_hand"}

\* A heads-up trial adds one to the counter the comparison of the trial's two
\* scores names and leaves the other two alone
C26_TrialStep ==
    (trial' = trial + 1 /\ call.entry \in HeadsUpTrialEntries) =>
        LET h == scores'[1]
            v == scores'[2]
        IN  /\ Len(scores') = 2
            /\ Len(results) = 1 /\ Len(results') = 1
            /\ results'[1].win = results[1].win + (IF h > v THEN 1 ELSE 0)
            /\ results'[1].lose = results[1].lose + (IF h < v THEN 1 ELSE 0)
            /\ results'[1].tie = results[1].tie + (IF h = v THEN 1 ELSE 0)

\* Within a call no counter decreases
C26_NoDecrease ==
    (call.entry \in HeadsUpTrialEntries /\ pc # "start") =>
        /\ results'[1].win >= results[1].win
        /\ results'[1].tie >= results[1].tie
        /\ results'[1].lose >= results[1].lose

\* After j trials of a call the three counters sum to j
C26_SumIsTrials ==
    (call.entry \in HeadsUpTrialEntries /\ pc # "start") =>
        total(results[1]) = trial

\* C26: in every heads-up trial (one exact board completion or one Monte Carlo
\* iteration) exactly one of win, tie, lose increases by exactly 1 and the
\* other two are unchanged: win when hero's score is greater than villain's,
\* lose when it is smaller, tie when the two are equal; no counter ever
\* decreases, and after j trials win + tie + lose = j.
C26_HeadsUpTrial ==
    /\ [](C26_SumIsTrials)
    /\ [][C26_TrialStep /\ C26_NoDecrease]_vars

\* A Monte Carlo call against a random hand that has counted a win and a loss
C26_Witness ==
    /\ call.entry = "mc_vs_random"
    /\ pc # "start"
    /\ results[1].win >= 1
    /\ results[1].lose >= 1
    /\ total(results[1]) = trial

----------------------------------------------------------------------------
(* equity.rs: two calls on related arguments *)

\* The multiway entry point standing for a heads-up one: the two known hands
\* as a list of players, or one random villain
AsMultiway(c) ==
    CASE c.entry = "exact_vs_hand" -> [c EXCEPT !.entry = "exact_multiway"]
      [] c.entry = "mc_vs_hand" -> [c EXCEPT !.entry = "mc_multiway"]
      [] c.entry = "mc_vs_random" ->
            [c EXCEPT !.entry = "mc_vs_random_multiway", !.nvill = 1]

\* The arguments hero and villain exchanged
SwapHands(c) == [c EXCEPT !.hands = <<c.hands[2], c.hands[1]>>]

\* The same cards handed over in another order: the two cards of one hand
\* exchanged, or the board slice permuted
Reordered(c) ==
    ({[c EXCEPT !.hands[i] = <<c.hands[i][2], c.hands[i][1]>>] : i \in 1..2}
     \cup {[c EXCEPT !.board = [i \in 1..Len(c.board) |-> c.board[p[i]]]] :
              p \in Permutations(1..Len(c.board))})
    \ {c}

\* The calls a caller may set beside the call c
RelatedCalls(c) ==
    CASE c.entry = "compare_showdown" -> {SwapHands(c)} \cup Reordered(c)
      [] c.entry = "exact_vs_hand" -> {AsMultiway(c), SwapHands(c)} \cup Reordered(c)
      [] OTHER -> {AsMultiway(c)}

\* Two hand pairs free of the boards: AA against KK, 3c 4c against 3s 4s
PairHands == {<<AA, KK>>, <<<<1, 2>>, <<40, 41>>>>}

\* Hand pairs that fail validation: ids out of range, repeated ids
BadPairHands == {<<<<52, 53>>, KK>>, <<<<0, 0>>, <<1, 1>>>>}

PairCalls ==
    [entry : {"compare_showdown"}, hands : PairHands \cup BadPairHands,
     nvill : {0}, board : {ScenarioBoard, <<47, 48, 49, 50, 51>>}, iters : {0}, seed : {0}]
    \cup
    [entry : {"exact_vs_hand"}, hands : PairHands \cup BadPairHands,
     nvill : {0}, board : EquityBoards, iters : {0}, seed : {0}]
    \cup
    [entry : {"mc_vs_hand"}, hands : PairHands,
     nvill : {0}, board : EquityBoards, iters : 0..MaxIters, seed : 0..MaxSeed]
    \cup
    [entry : {"mc_vs_random"}, hands : {<<AA>>, <<KK>>},
     nvill : {0}, board : EquityBoards, iters : 0..MaxIters, seed : 0..MaxSeed]

InitPair ==
    /\ call \in PairCalls
    /\ pc = "start"
    /\ smp = NoSampler
    /\ used = {}
    /\ drawn = <<>>
    /\ trial = 0
    /\ scores = <<>>
    /\ results = <<>>
    /\ rem = <<>>
    /\ loopIdx = Exhausted
    /\ seen = {}
    /\ run = 1
    /\ prev = NoPrev
    /\ log = <<>>
    /\ ret = NoRet
    /\ EvalIdle

\* The caller keeps what the call returned and makes a related call.
RelatedCall ==
    /\ pc = "done"
    /\ run = 1
    /\ run' = 2
    /\ prev' = [call |-> call, ret |-> ret, log |-> log, results |-> results]
    /\ call' \in RelatedCalls(call)
    /\ pc' = "start"
    /\ UNCHANGED <<smp, used, drawn, trial, scores, results, rem, loopIdx, seen,
                   log, ret>>
    /\ UNCHANGED evalVars

NextPair ==
    \/ EntryError
    \/ CmpShowdown
    \/ McStart
    \/ McDraw
    \/ McTrial
    \/ ExStart
    \/ ExStep
    \/ RelatedCall

SpecPair == InitPair /\ [][NextPair]_vars

----------------------------------------------------------------------------
(* Claims on pairs of calls, under SpecPair *)

\* The second call has returned and both calls passed validation
BothReturnedOk == run = 2 /\ pc = "done" /\ prev.ret.ok /\ ret.ok

\* Counts with win and lose exchanged
Mirrored(c) == [win |-> c.lose, tie |-> c.tie, lose |-> c.win]

\* C27: for valid hero, villain and board of 0..5 cards,
\* equity_exact_multiway_checked([hero, villain], board) returns for player 0
\* the counts of equity_exact_vs_hand_checked(hero, villain, board) and for
\* player 1 the same counts with win and lose exchanged.
C27_ExactMultiwayIsHeadsUp ==
    (/\ run = 2 /\ pc = "done"
     /\ prev.call.entry = "exact_vs_hand"
     /\ prev.ret.ok
     /\ call.entry = "exact_multiway"
     /\ call.hands = prev.call.hands
     /\ call.board = prev.call.board) =>
        /\ ret.ok
        /\ Len(ret.val) = 2
        /\ ret.val[1] = prev.ret.val[1]
        /\ ret.val[2] = Mirrored(prev.ret.val[1])

\* Both exact calls have returned on a board with two cards to come, with
\* wins, ties and losses counted
C27_Witness ==
    /\ BothReturnedOk
    /\ prev.call.entry = "exact_vs_hand"
    /\ call.entry = "exact_multiway"
    /\ Len(call.board) = 3
    /\ ret.val[1].win >= 1 /\ ret.val[1].tie >= 1 /\ ret.val[1].lose >= 1
    /\ ret.val[2].win = ret.val[1].lose

\* The cards a call has drawn, in the order drawn
DrawsOf(l) == [i \in 1..Len(l) |-> l[i][1]]

\* C28: for valid arguments equity_mc_multiway_checked([hero, villain], board,
\* iters, seed) draws the same board cards in every trial as
\* equity_mc_vs_hand_checked(hero, villain, board, iters, seed) and returns
\* for player 0 the same counts; equity_mc_vs_random_multiway_checked(hero, 1,
\* board, iters, seed) returns the counts of
\* equity_mc_vs_random_checked(hero, board, iters, seed).
C28_McMultiwayIsHeadsUp ==
    (/\ run = 2
     /\ prev.ret.ok
     /\ call.hands = prev.call.hands
     /\ call.board = prev.call.board
     /\ call.iters = prev.call.iters
     /\ call.seed = prev.call.seed
     /\ \/ prev.call.entry = "mc_vs_hand" /\ call.entry = "mc_multiway"
        \/ /\ prev.call.entry = "mc_vs_random"
           /\ call.entry = "mc_vs_random_multiway"
           /\ call.nvill = 1) =>
        /\ pc \in {"sample", "done"} =>
              /\ Len(log) <= Len(prev.log)
              /\ DrawsOf(log) = SubSeq(DrawsOf(prev.log), 1, Len(log))
        /\ pc = "done" =>
              /\ ret.ok
              /\ DrawsOf(log) = DrawsOf(prev.log)
              /\ Len(log) = call.iters * Need(call)
              /\ ret.val[1] = prev.ret.val[1]
              /\ call.entry = "mc_vs_random_multiway" => ret.val = prev.ret.val

\* Both Monte Carlo calls on the two known hands have returned after two or
\* more trials with cards drawn, hero having won one and not won another
C28_Witness ==
    /\ BothReturnedOk
    /\ prev.call.entry = "mc_vs_hand"
    /\ call.entry = "mc_multiway"
    /\ call.iters >= 2
    /\ Len(log) >= 4
    /\ ret.val[1].win >= 1
    /\ ret.val[1].win < call.iters

\* The Outcome seen from the other seat
OtherSeat(o) ==
    CASE o = "HeroWin" -> "VillainWin"
      [] o = "VillainWin" -> "HeroWin"
      [] OTHER -> o

\* The second call has returned and was made with hero and villain exchanged
ExchangedDone ==
    /\ run = 2 /\ pc = "done"
    /\ call.entry = prev.call.entry
    /\ call.hands = <<prev.call.hands[2], prev.call.hands[1]>>
    /\ call.board = prev.call.board

\* The cards of a hand or of a board slice, without their order
CardSet(q) == {q[i] : i \in 1..Len(q)}

\* The second call has returned and was made with the same hero cards, the
\* same villain cards and the same board cards, in whatever order
SameCardsDone ==
    /\ run = 2 /\ pc = "done"
    /\ call.entry = prev.call.entry
    /\ \A i \in 1..2 : /\ CardSet(call.hands[i]) = CardSet(prev.call.hands[i])
                       /\ call.hands[i] \in {prev.call.hands[i],
                                             <<prev.call.hands[i][2], prev.call.hands[i][1]>>}
    /\ Len(call.board) = Len(prev.call.board)
    /\ \E p \in Permutations(1..Len(call.board)) :
          call.board = [i \in 1..Len(call.board) |-> prev.call.board[p[i]]]

\* C29: compare_showdown_checked(v, h, board) is VillainWin / Tie / HeroWin
\* exactly when compare_showdown_checked(h, v, board) is HeroWin / Tie /
\* VillainWin; equity_exact_vs_hand_checked(v, h, board) returns the counts of
\* equity_exact_vs_hand_checked(h, v, board) with win and lose exchanged and
\* tie equal; the outcome and the counts do not depend on the order of the two
\* cards inside a hand or of the known board cards.
C29_SeatsAndOrder ==
    /\ (ExchangedDone /\ call.entry = "compare_showdown") =>
          /\ ret.ok = prev.ret.ok
          /\ \A o \in {"HeroWin", "Tie", "VillainWin"} :
                (ret = Ok(OtherSeat(o))) = (prev.ret = Ok(o))
    /\ (ExchangedDone /\ call.entry = "exact_vs_hand") =>
          /\ ret.ok = prev.ret.ok
          /\ ret.ok => ret.val = <<Mirrored(prev.ret.val[1])>>
    /\ (SameCardsDone /\ call.entry \in {"compare_showdown", "exact_vs_hand"}) =>
          /\ ret.ok = prev.ret.ok
          /\ ret.ok => ret.val = prev.ret.val

\* The exact call with hero and villain exchanged has returned on a board
\* with one card to come, with more wins than losses for the first seating
C29_Witness ==
    /\ ExchangedDone
    /\ BothReturnedOk
    /\ call.entry = "exact_vs_hand"
    /\ Len(call.board) = 4
    /\ prev.ret.val[1].win > prev.ret.val[1].lose
    /\ ret.val[1].lose = prev.ret.val[1].win

----------------------------------------------------------------------------
(* Claims on the multiway trials, under SpecEquity *)

RECURSIVE SumWin(_)
SumWin(res) == IF res = <<>> THEN 0 ELSE Head(res).win + SumWin(Tail(res))

RECURSIVE SumLose(_)
SumLose(res) == IF res = <<>> THEN 0 ELSE Head(res).lose + SumLose(Tail(res))

\* A trial over n >= 2 known hands: some player holds the greatest score; at
\* most one win counter moves, and one does exactly when one player alone
\* holds the greatest score; tie counters move for none or for two or more
C30_TrialStep ==
    (trial' = trial + 1 /\ call.entry \in KnownMultiway) =>
        LET n == Len(results)
            W == MaxScoreHolders(scores')
            winUp == {i \in 1..n : results'[i].win # results[i].win}
            tieUp == {i \in 1..n : results'[i].tie # results[i].tie}
        IN  /\ n >= 2 /\ Len(scores') = n
            /\ W # {}
            /\ Cardinality(winUp) <= 1
            /\ Cardinality(tieUp) # 1
            /\ (Cardinality(winUp) = 1) = (Cardinality(W) = 1)
            /\ SumWin(results') = SumWin(results) + (IF Cardinality(W) = 1 THEN 1 ELSE 0)

\* After T trials the wins sum to at most T and the losses to at most (n-1)*T
C30_Sums ==
    (call.entry \in KnownMultiway /\ pc # "start") =>
        /\ SumWin(results) <= trial
        /\ SumLose(results) <= (Len(results) - 1) * trial

\* C30: in every multiway trial with n >= 2 players the winner set is
\* non-empty, at most one player's win increases, and the number of players
\* whose tie increases is 0 or at least 2; after T trials the sum of win over
\* all players is at most T, the sum of lose at most (n-1)*T, and the sum of
\* win has grown by one in exactly the trials with a sole winner.
C30_MultiwayTrial ==
    /\ [](C30_Sums)
    /\ [][C30_TrialStep]_vars

\* Four players: a call has returned after trials with a sole winner and
\* trials without
C30_Witness ==
    /\ pc = "done"
    /\ call.entry \in KnownMultiway
    /\ Len(call.hands) = 4
    /\ SumWin(results) >= 1
    /\ SumWin(results) < trial

====
